---- MODULE Spec2Model ----
(***************************************************************************)
(* Model of the get-link route handler (src/app/api/get-link/route.ts and  *)
(* its variant src/unnamed/part_001): id validation, the process-wide      *)
(* resolution cache with its TTL, the two-step upstream resolution         *)
(* (get-info GET, get-download POST) and the streaming proxy's file GET.   *)
(* Every await of the handler is a point where other requests and the      *)
(* clock may move; the code between two awaits is one atomic action.       *)
(***************************************************************************)
EXTENDS Integers, Sequences, FiniteSets, TLC

VARIABLES cache, requests, now, writes, variant, streams, fetches, page

vars == <<cache, requests, now, writes, variant, streams, fetches, page>>

\* what the route handler GET never touches: the calls of fetchWithTimeout
\* followed on their own, and the state of the page in the browser
client == <<fetches, page>>

-----------------------------------------------------------------------------
(* Bounds of the model *)

MaxRequests == 2

\* the calls of fetchWithTimeout followed step by step
MaxCalls == 2

-----------------------------------------------------------------------------
(* Program constants *)

API_TIMEOUT == 10000

CACHE_TTL == 300000

Null == [null |-> TRUE]

Lower == {"a", "b", "c", "d", "e", "f", "g", "h", "i", "j", "k", "l", "m",
          "n", "o", "p", "q", "r", "s", "t", "u", "v", "w", "x", "y", "z"}

Upper == {"A", "B", "C", "D", "E", "F", "G", "H", "I", "J", "K", "L", "M",
          "N", "O", "P", "Q", "R", "S", "T", "U", "V", "W", "X", "Y", "Z"}

Digit == {"0", "1", "2", "3", "4", "5", "6", "7", "8", "9"}

\* the character class [A-Za-z0-9_-]
IdChars == Lower \cup Upper \cup Digit \cup {"_", "-"}

\* a mutant of the regular expression: the length bound {6,} dropped to {5,}
VALID_ID_REGEX_short(id) ==
    /\ Len(id) >= 5
    /\ \A i \in 1..Len(id) : id[i] \in IdChars

\* /^[A-Za-z0-9_-]{6,}$/.test(id), id a sequence of characters
VALID_ID_REGEX(id) ==
    /\ Len(id) >= 6
    /\ \A i \in 1..Len(id) : id[i] \in IdChars

\* the two variants of the route in the repository
Variants == {"route", "part_001"}

\* header names are written in lower case, as the Headers class keeps them
DEFAULT_HEADERS(v) ==
    IF v = "route"
    THEN ("user-agent" :> "Mozilla/5.0" @@ "referer" :> "https://terabox.hnn.workers.dev/")
    ELSE ("user-agent" :> "Mozilla/5.0" @@ "referer" :> "https://www.terabox.com/" @@
          "origin" :> "https://www.terabox.com" @@ "cookie" :> "ndut_fm")

CORS_HEADERS ==
    ("access-control-allow-origin" :> "*" @@
     "access-control-allow-methods" :> "GET, OPTIONS" @@
     "access-control-allow-headers" :> "Content-Type, Range")

-----------------------------------------------------------------------------
(* Requests: URLSearchParams and Headers are maps; get() of a missing key   *)
(* is null, which the handler only ever tests for truthiness.              *)

Has(map, key) == key \in DOMAIN map

\* !id : null or the empty string
Falsy(map, key) == IF Has(map, key) THEN Len(map[key]) = 0 ELSE TRUE

\* !id || !VALID_ID_REGEX.test(id)
IdRejected(query) ==
    IF Falsy(query, "id") THEN TRUE ELSE ~VALID_ID_REGEX(query.id)

\* a mutant of the format test: no request counts as a JSON request
FormatJson_never(query) == FALSE

\* format === 'json'
FormatJson(query) == IF Has(query, "format") THEN query.format = "json" ELSE FALSE

\* request.headers.get(name) || ''
GetOrEmpty(map, key) == IF Has(map, key) THEN map[key] ELSE ""

\* request.headers.get(name), for a truthiness test: null and '' are falsy
Truthy(map, key) == IF Has(map, key) THEN map[key] # "" ELSE FALSE

\* the instants Date.now() is observed at: the start, the last millisecond
\* before an entry written at the start expires, the instant it expires, and
\* a later one
Instants == {0, CACHE_TTL - 1, CACHE_TTL, 2 * CACHE_TTL}

-----------------------------------------------------------------------------
(* What the upstream helper API and the file host may answer *)

File1 == [fs_id |-> "fs1", filename |-> <<"a", " ", "b">>, size |-> 10, md5 |-> "md5-1"]

File2 == [fs_id |-> "fs2", filename |-> <<"c">>, size |-> 4, md5 |-> "md5-2"]

NoFsId == [fs_id |-> "", filename |-> <<"c">>, size |-> 4, md5 |-> "md5-2"]

Meta1 == [shareid |-> "share1", uk |-> "uk1", sign |-> "sign1", timestamp |-> "ts1",
          list |-> <<File1, File2>>]

Meta2 == [shareid |-> "share2", uk |-> "uk2", sign |-> "sign2", timestamp |-> "ts2",
          list |-> <<File2>>]

\* bodies of a 2xx get-info answer: valid ones, an empty list, a first file
\* without fs_id, and the JSON value null
InfoBodies ==
    {Meta1, Meta2,
     [shareid |-> "share1", uk |-> "uk1", sign |-> "sign1", timestamp |-> "ts1", list |-> <<>>],
     [shareid |-> "share1", uk |-> "uk1", sign |-> "sign1", timestamp |-> "ts1", list |-> <<NoFsId, File1>>],
     Null}

\* bodies of a 2xx get-download answer
DownloadBodies ==
    {[downloadLink |-> "https://d1/file"], [downloadLink |-> "https://d2/file"],
     [downloadLink |-> ""], [error |-> "expired"]}

\* how a fetch() of the helper API settles: the abort timer fires, a
\* non-2xx answer, or a 2xx answer with a JSON body
InfoOutcomes ==
    {[kind |-> "abort"], [kind |-> "http", status |-> 500]}
    \cup {[kind |-> "http", status |-> 200, json |-> b] : b \in InfoBodies}

DownloadOutcomes ==
    {[kind |-> "abort"], [kind |-> "http", status |-> 403]}
    \cup {[kind |-> "http", status |-> 200, json |-> b] : b \in DownloadBodies}

\* how the fetch() of the download link settles
FileOutcomes ==
    {[kind |-> "network"],
     [kind |-> "http", status |-> 200,
      headers |-> ("content-type" :> "video/mp4" @@ "content-length" :> "3"),
      body |-> <<<<1, 2>>, <<3>>>>],
     [kind |-> "http", status |-> 404, headers |-> <<>>, body |-> <<>>]}

-----------------------------------------------------------------------------
(* The handler's pure steps *)

\* cache.get(id): the entry, or undefined
CacheGet(id) == IF id \in DOMAIN cache THEN cache[id] ELSE Null

\* a mutant of the freshness test: the comparison turned around
CacheFresh_reversed(cached, t) == cached # Null /\ cached.expiry < t

\* a mutant of the freshness test: an entry still used at its expiry instant
CacheFresh_inclusive(cached, t) == cached # Null /\ cached.expiry >= t

\* cached && cached.expiry > Date.now()
CacheFresh(cached, t) == cached # Null /\ cached.expiry > t

\* a mutant of the entry: no time to live added, the entry is stale at once
NewEntry_expired(link, fileData, t) ==
    [expiry |-> t, link |-> link, metadata |-> fileData]

\* a mutant of the entry: the expiry not counted from the time of the write
NewEntry_noNow(link, fileData, t) ==
    [expiry |-> CACHE_TTL, link |-> link, metadata |-> fileData]

\* the entry cache.set stores after a resolution
NewEntry(link, fileData, t) ==
    [expiry |-> t + CACHE_TTL, link |-> link, metadata |-> fileData]

\* a mutant of cache.set: an existing entry is kept
CacheSet_ifAbsent(id, entry) ==
    [k \in DOMAIN cache \cup {id} |-> IF k \in DOMAIN cache THEN cache[k] ELSE entry]

\* a mutant of the write: an entry that exists keeps its metadata and gets
\* the new link and expiry
CacheSet_merge(id, entry) ==
    [k \in DOMAIN cache \cup {id} |->
        IF k # id THEN cache[k]
        ELSE IF k \in DOMAIN cache THEN [entry EXCEPT !.metadata = cache[k].metadata]
        ELSE entry]

\* cache.set(id, entry): the map with the entry of id created or replaced
CacheSet(id, entry) ==
    [k \in DOMAIN cache \cup {id} |-> IF k = id THEN entry ELSE cache[k]]

\* metadata?.list?.[0]?.fs_id is truthy
ValidMetadata(metadata) ==
    /\ metadata # Null
    /\ Has(metadata, "list")
    /\ Len(metadata.list) >= 1
    /\ metadata.list[1].fs_id # ""

\* a mutant of the file choice: the last file of the list
FirstFile_last(metadata) == metadata.list[Len(metadata.list)]

\* const fileData = metadata.list[0]
FirstFile(metadata) == metadata.list[1]

\* the body of the get-download POST
PostData(metadata, fileData) ==
    [fs_id |-> fileData.fs_id, shareid |-> metadata.shareid, sign |-> metadata.sign,
     timestamp |-> metadata.timestamp, uk |-> metadata.uk]

\* a mutant of the link check: the field only has to be present
HasDownloadLink_present(body) ==
    /\ body # Null
    /\ Has(body, "downloadLink")

\* response.downloadLink is truthy
HasDownloadLink(body) ==
    /\ body # Null
    /\ Has(body, "downloadLink")
    /\ body.downloadLink # ""

\* response.ok : a status in 200..299
Ok(status) == status >= 200 /\ status <= 299

\* a mutant of the status check of the file answer: no check at all
FileAccepted_any(status) == TRUE

\* !(!fileResponse.ok && fileResponse.status !== 206)
FileAccepted(status) == Ok(status) \/ status = 206

\* the message of the Error fetchWithTimeout throws, "" when it returns
FetchError(outcome) ==
    CASE outcome.kind = "abort" -> "Request timed out"
      [] outcome.kind = "network" -> "fetch failed"
      [] outcome.kind = "http" /\ ~Ok(outcome.status) ->
            "HTTP error! status: " \o ToString(outcome.status)
      [] OTHER -> ""

\* NextResponse.json({ error: 'Invalid ID' }, { status: 400 })
InvalidIdResponse == [status |-> 400, json |-> [error |-> "Invalid ID"]]

\* a mutant of the catch block: the failure reported as a client error
ErrorResponse_400(message) ==
    [status |-> 400, json |-> [error |-> message],
     headers |-> ("content-type" :> "application/json")]

\* the 500 response of the catch block
ErrorResponse(message) ==
    [status |-> 500, json |-> [error |-> message],
     headers |-> ("access-control-allow-origin" :> "*" @@
                  "access-control-allow-methods" :> "GET, OPTIONS" @@
                  "content-type" :> "application/json")]

\* a mutant of the JSON body: the size taken from the name
JsonResponse_nameSize(link, fileData) ==
    [status |-> 200,
     json |-> [downloadUrl |-> link, fileName |-> fileData.filename,
               fileSize |-> Len(fileData.filename)],
     headers |-> CORS_HEADERS]

\* the 200 JSON response, on a hit and after a resolution
JsonResponse(link, fileData) ==
    [status |-> 200,
     json |-> [downloadUrl |-> link, fileName |-> fileData.filename, fileSize |-> fileData.size],
     headers |-> CORS_HEADERS]

\* a mutant of the redirect: the default 302 of a redirect
RedirectResponse_302(link) == [status |-> 302, location |-> link, headers |-> CORS_HEADERS]

\* NextResponse.redirect(cached.link, { status: 307, ... })
RedirectResponse(link) == [status |-> 307, location |-> link, headers |-> CORS_HEADERS]

\* the 204 response of the OPTIONS branch
OptionsResponse ==
    [status |-> 204, headers |-> (CORS_HEADERS @@ "access-control-max-age" :> "86400")]

-----------------------------------------------------------------------------
(* The streaming proxy's headers *)

CLIENT_HEADERS_TO_FORWARD ==
    {"cookie", "range", "if-range", "sec-fetch-dest", "sec-fetch-mode", "sec-fetch-site",
     "sec-ch-ua", "sec-ch-ua-mobile", "x-requested-with", "accept-encoding",
     "sec-ch-ua-platform"}

\* part_001: the client headers of the list that are present and not empty
ForwardHeaders(headers) ==
    [k \in {n \in CLIENT_HEADERS_TO_FORWARD : Truthy(headers, n)} |-> headers[k]]

\* the headers of the fetch() of the download link.  In route.ts Cookie and
\* Range are always set, to '' when the client sent none.  In part_001 the
\* forwarded headers override the defaults; the object then has the two keys
\* 'x-requested-with' and 'X-Requested-With', which Headers joins with ", ".
FetchHeaders(v, headers) ==
    IF v = "route"
    THEN ("cookie" :> GetOrEmpty(headers, "cookie") @@
          "range" :> GetOrEmpty(headers, "range") @@
          DEFAULT_HEADERS(v))
    ELSE LET fwd == ForwardHeaders(headers)
         IN  ("x-requested-with" :>
                 (IF Has(fwd, "x-requested-with")
                  THEN fwd["x-requested-with"] \o ", XMLHttpRequest"
                  ELSE "XMLHttpRequest") @@
              fwd @@ DEFAULT_HEADERS(v))

\* encodeURIComponent of one character
EncodeChar(c) ==
    CASE c \in IdChars \cup {".", "!", "~", "*", "'", "(", ")"} -> c
      [] c = " " -> "%20"
      [] c = "/" -> "%2F"
      [] OTHER -> "%3F"

RECURSIVE encodeURIComponent(_)
encodeURIComponent(name) ==
    IF name = <<>> THEN "" ELSE EncodeChar(Head(name)) \o encodeURIComponent(Tail(name))

\* a mutant of the streamed headers: content-range of the upstream not copied
StreamHeaders_noRange(fileData, upstream) ==
    [k \in DOMAIN upstream \cap {"content-length"} |-> upstream[k]] @@
    ("content-type" :> "application/octet-stream" @@
     "accept-ranges" :> "bytes" @@
     CORS_HEADERS)

\* the headers of the streamed response: the fixed ones, then content-length
\* and content-range of the upstream answer set over them
StreamHeaders(fileData, upstream) ==
    [k \in DOMAIN upstream \cap {"content-length", "content-range"} |-> upstream[k]] @@
    ("content-type" :> (IF Truthy(upstream, "content-type") THEN upstream["content-type"]
                        ELSE "application/octet-stream") @@
     "content-disposition" :>
         ("attachment; filename*=UTF-8''" \o encodeURIComponent(fileData.filename)) @@
     "accept-ranges" :> "bytes" @@
     CORS_HEADERS @@
     "cache-control" :> "public, max-age=3600" @@
     "x-file-name" :> encodeURIComponent(fileData.filename) @@
     "x-file-size" :> ToString(fileData.size) @@
     "x-file-md5" :> fileData.md5)

\* new Response(fileResponse.body, { status, headers })
StreamResponse(fileData, fileResponse) ==
    [status |-> fileResponse.status,
     headers |-> StreamHeaders(fileData, fileResponse.headers),
     body |-> fileResponse.body]

-----------------------------------------------------------------------------
(* State *)

\* the body of the streamed response is the ReadableStream of the upstream
\* answer itself: when the handler returns it, no chunk has been read; the
\* runtime then takes the chunks one by one and writes them to the client
OpenStream(body) == [state |-> "open", pending |-> body, delivered |-> <<>>]

\* the requests that have returned their response
Done == {i \in 1..Len(requests) : requests[i].pc = "done"}

\* a request that has entered the handler; cached, metadata, fileData,
\* downloadLink and fileResponse are the handler's locals and startTime the
\* Date.now() of its cache check; calls are the upstream requests it has
\* issued so far and replies how each settled, response is what it returned,
\* and after is the set of requests that had returned when it arrived
NewRequest(request) ==
    [method |-> request.method, query |-> request.query, headers |-> request.headers,
     pc |-> "start", cached |-> Null, startTime |-> now, after |-> Done,
     metadata |-> Null, fileData |-> Null, downloadLink |-> Null, fileResponse |-> Null,
     calls |-> <<>>, replies |-> <<>>, response |-> Null]

Init ==
    /\ cache = <<>>
    /\ requests = <<>>
    /\ now = 0
    /\ writes = <<>>
    /\ variant = "route"
    /\ streams = <<>>
    /\ fetches = <<>>
    /\ page = Null

-----------------------------------------------------------------------------
(* The handler GET, one action per stretch of code between two awaits *)

Finish(rec, response) == [rec EXCEPT !.pc = "done", !.response = response]

Call(rec, call) == [rec EXCEPT !.calls = Append(@, call)]

Reply(rec, outcome) == [rec EXCEPT !.replies = Append(@, outcome)]

\* lines 38-44: the id is missing, empty or does not match the expression
GET_InvalidId(request) ==
    /\ Len(requests) < MaxRequests
    /\ IdRejected(request.query)
    /\ requests' = Append(requests, Finish(NewRequest(request), InvalidIdResponse))
    /\ UNCHANGED <<cache, now, writes, variant, streams, client>>

\* lines 46-71: the cache holds a fresh entry
GET_CacheHit(request) ==
    /\ Len(requests) < MaxRequests
    /\ ~IdRejected(request.query)
    /\ LET id == request.query.id
           cached == CacheGet(id)
           rec == [NewRequest(request) EXCEPT !.cached = cached]
       IN  /\ CacheFresh(cached, now)
           /\ requests' = Append(requests,
                  IF FormatJson(request.query)
                  THEN Finish(rec, JsonResponse(cached.link, cached.metadata))
                  ELSE Finish(rec, RedirectResponse(cached.link)))
    /\ UNCHANGED <<cache, now, writes, variant, streams, client>>

\* lines 46-77: no fresh entry; the get-info GET is issued
GET_CacheMiss(request) ==
    /\ Len(requests) < MaxRequests
    /\ ~IdRejected(request.query)
    /\ LET id == request.query.id
           cached == CacheGet(id)
           rec == [NewRequest(request) EXCEPT !.cached = cached, !.pc = "get-info"]
       IN  /\ ~CacheFresh(cached, now)
           /\ requests' = Append(requests,
                  Call(rec, [kind |-> "get-info", shorturl |-> id,
                             headers |-> DEFAULT_HEADERS(variant)]))
    /\ UNCHANGED <<cache, now, writes, variant, streams, client>>

\* lines 74-84 and 188-207: fetchWithTimeout of get-info settles; the
\* metadata is validated and the get-download POST is issued
GetInfoSettles(r, outcome) ==
    /\ r \in 1..Len(requests)
    /\ requests[r].pc = "get-info"
    /\ LET rec == Reply(requests[r], outcome)
           err == FetchError(outcome)
       IN  requests' = [requests EXCEPT ![r] =
              IF err # "" THEN Finish(rec, ErrorResponse(err))
              ELSE IF ~ValidMetadata(outcome.json)
                   THEN Finish([rec EXCEPT !.metadata = outcome.json],
                               ErrorResponse("Invalid file metadata"))
              ELSE LET fileData == FirstFile(outcome.json)
                   IN  Call([rec EXCEPT !.metadata = outcome.json, !.fileData = fileData,
                                        !.pc = "get-download"],
                            [kind |-> "get-download", body |-> PostData(outcome.json, fileData),
                             headers |-> ("content-type" :> "application/json" @@
                                          DEFAULT_HEADERS(variant))])]
    /\ UNCHANGED <<cache, now, writes, variant, streams, client>>

\* lines 207-213 and 84-136: fetchWithTimeout of get-download settles; the
\* link is checked, the cache is written, and the handler returns JSON,
\* answers OPTIONS or issues the GET of the download link
GetDownloadSettles(r, outcome) ==
    /\ r \in 1..Len(requests)
    /\ requests[r].pc = "get-download"
    /\ LET rec == Reply(requests[r], outcome)
           id == rec.query.id
           err == FetchError(outcome)
       IN  IF err # "" \/ ~HasDownloadLink(outcome.json)
           THEN /\ requests' = [requests EXCEPT ![r] =
                      Finish(rec, ErrorResponse(
                          IF err # "" THEN err
                          ELSE IF outcome.json = Null
                               THEN "Cannot read properties of null"
                               ELSE "No download link received from upstream"))]
                /\ UNCHANGED <<cache, writes>>
           ELSE LET downloadLink == outcome.json.downloadLink
                    entry == NewEntry(downloadLink, rec.fileData, now)
                    res == [rec EXCEPT !.downloadLink = downloadLink]
                IN  /\ cache' = CacheSet(id, entry)
                    /\ writes' = Append(writes, [req |-> r, id |-> id, entry |-> entry,
                                                 time |-> now])
                    /\ requests' = [requests EXCEPT ![r] =
                          IF FormatJson(rec.query)
                          THEN Finish(res, JsonResponse(downloadLink, rec.fileData))
                          ELSE IF rec.method = "OPTIONS"
                               THEN Finish(res, OptionsResponse)
                               ELSE Call([res EXCEPT !.pc = "file"],
                                         [kind |-> "file", url |-> downloadLink,
                                          headers |-> FetchHeaders(variant, rec.headers),
                                          redirect |-> "follow"])]
    /\ UNCHANGED <<now, variant, streams, client>>

\* lines 136-166: the fetch of the download link settles
FileSettles(r, outcome) ==
    /\ r \in 1..Len(requests)
    /\ requests[r].pc = "file"
    /\ LET rec == Reply(requests[r], outcome)
       IN  requests' = [requests EXCEPT ![r] =
              IF outcome.kind = "network" THEN Finish(rec, ErrorResponse("fetch failed"))
              ELSE LET res == [rec EXCEPT !.fileResponse = outcome]
                   IN  IF ~FileAccepted(outcome.status)
                       THEN Finish(res, ErrorResponse(
                                "Failed to retrieve file: " \o ToString(outcome.status)))
                       ELSE Finish(res, StreamResponse(rec.fileData, outcome))]
    /\ streams' = IF outcome.kind = "http"
                  THEN IF FileAccepted(outcome.status)
                       THEN (r :> OpenStream(outcome.body)) @@ streams
                       ELSE streams
                  ELSE streams
    /\ UNCHANGED <<cache, now, writes, variant, client>>

\* Date.now() moves on
Tick(t) ==
    /\ t \in Instants
    /\ t > now
    /\ now' = t
    /\ UNCHANGED <<cache, requests, writes, variant, streams, client>>

-----------------------------------------------------------------------------
(* The requests the model sends *)

IdEmpty == <<>>

IdTooShort == <<"a", "b">>

IdFive == <<"a", "b", "c", "d", "e">>

IdBadChar == <<"a", "b", "c", "d", "e", "!">>

IdA == <<"a", "b", "c", "d", "e", "f">>

IdB == <<"A", "Z", "_", "-", "0", "9", "z">>

Queries ==
    {<<>>, [id |-> IdEmpty], [id |-> IdTooShort], [id |-> IdFive],
     [id |-> IdBadChar, format |-> "json"],
     [id |-> IdA], [id |-> IdA, format |-> "json"], [id |-> IdB]}

Requests == {[method |-> "GET", query |-> q, headers |-> <<>>] : q \in Queries}

Next ==
    \/ \E request \in Requests : GET_InvalidId(request)
    \/ \E request \in Requests : GET_CacheHit(request)
    \/ \E request \in Requests : GET_CacheMiss(request)
    \/ \E r \in 1..MaxRequests, outcome \in InfoOutcomes : GetInfoSettles(r, outcome)
    \/ \E r \in 1..MaxRequests, outcome \in DownloadOutcomes : GetDownloadSettles(r, outcome)
    \/ \E r \in 1..MaxRequests, outcome \in FileOutcomes : FileSettles(r, outcome)
    \/ \E t \in Instants : Tick(t)

Spec == Init /\ [][Next]_vars

-----------------------------------------------------------------------------
(* The streaming proxy on its own: both variants of the route, requests    *)
(* that differ in their method and headers, a resolution that succeeds,    *)
(* and the answers the file host may give.                                 *)

InitProxy ==
    /\ cache = <<>>
    /\ requests = <<>>
    /\ now = 0
    /\ writes = <<>>
    /\ variant \in Variants
    /\ streams = <<>>
    /\ fetches = <<>>
    /\ page = Null

\* the headers of the inbound request
ProxyHeaders ==
    {<<>>,
     "range" :> "bytes=2-5",
     "range" :> "",
     "cookie" :> "sid=1" @@ "authorization" :> "Bearer t",
     "range" :> "bytes=2-5" @@ "if-range" :> "etag1",
     "x-requested-with" :> "fetch" @@ "accept-encoding" :> "gzip"}

ProxyRequests ==
    {[method |-> "GET", query |-> [id |-> IdA], headers |-> h] : h \in ProxyHeaders}
    \cup {[method |-> "OPTIONS", query |-> q, headers |-> <<>>] :
              q \in {[id |-> IdA], [id |-> IdTooShort]}}

ProxyInfoOutcomes == {[kind |-> "http", status |-> 200, json |-> Meta1]}

ProxyDownloadOutcomes ==
    {[kind |-> "http", status |-> 200, json |-> [downloadLink |-> "https://d1/file"]]}

ProxyFileOutcomes ==
    {[kind |-> "network"],
     [kind |-> "http", status |-> 200,
      headers |-> ("content-type" :> "video/mp4" @@ "content-length" :> "3"),
      body |-> <<<<1, 2>>, <<3>>>>],
     [kind |-> "http", status |-> 200, headers |-> <<>>, body |-> <<<<1>>>>],
     [kind |-> "http", status |-> 206,
      headers |-> ("content-type" :> "video/mp4" @@ "content-length" :> "4" @@
                   "content-range" :> "bytes 2-5/10"),
      body |-> <<<<3, 4>>, <<5, 6>>>>],
     [kind |-> "http", status |-> 201, headers |-> <<>>, body |-> <<>>],
     [kind |-> "http", status |-> 204, headers |-> <<>>, body |-> <<>>],
     [kind |-> "http", status |-> 304, headers |-> <<>>, body |-> <<>>],
     [kind |-> "http", status |-> 404, headers |-> <<>>, body |-> <<>>],
     [kind |-> "http", status |-> 500, headers |-> <<>>, body |-> <<>>]}

NextProxy ==
    \/ \E request \in ProxyRequests : GET_InvalidId(request)
    \/ \E request \in ProxyRequests : GET_CacheHit(request)
    \/ \E request \in ProxyRequests : GET_CacheMiss(request)
    \/ \E r \in 1..MaxRequests, outcome \in ProxyInfoOutcomes : GetInfoSettles(r, outcome)
    \/ \E r \in 1..MaxRequests, outcome \in ProxyDownloadOutcomes :
          GetDownloadSettles(r, outcome)
    \/ \E r \in 1..MaxRequests, outcome \in ProxyFileOutcomes : FileSettles(r, outcome)

SpecProxy == InitProxy /\ [][NextProxy]_vars

-----------------------------------------------------------------------------
(* The body of a streamed response after the handler has returned it: the  *)
(* runtime pipes the upstream ReadableStream to the client.  The handler   *)
(* registers nothing on the stream or on request.signal, so none of these  *)
(* steps runs any code of the handler.                                     *)

\* a mutant of the pipe: a chunk is taken from the upstream and not written
PipeChunk_drop(s) == [s EXCEPT !.pending = Tail(@)]

\* one chunk read from the upstream body and written to the client
PipeChunk(s) ==
    [s EXCEPT !.pending = Tail(@), !.delivered = Append(@, Head(s.pending))]

\* the client has gone: the stream is cancelled and what is left of the
\* upstream body is released
CancelStream(s) == [s EXCEPT !.state = "cancelled", !.pending = <<>>]

Streaming == {r \in DOMAIN streams : streams[r].state = "open"}

StreamChunk(r) ==
    /\ r \in Streaming
    /\ streams[r].pending # <<>>
    /\ streams' = [streams EXCEPT ![r] = PipeChunk(@)]
    /\ UNCHANGED <<cache, requests, now, writes, variant, client>>

\* the upstream body has ended
StreamEnd(r) ==
    /\ r \in Streaming
    /\ streams[r].pending = <<>>
    /\ streams' = [streams EXCEPT ![r].state = "closed"]
    /\ UNCHANGED <<cache, requests, now, writes, variant, client>>

\* the client disconnects while the body is being copied
ClientDisconnect(r) ==
    /\ r \in Streaming
    /\ streams' = [streams EXCEPT ![r] = CancelStream(@)]
    /\ UNCHANGED <<cache, requests, now, writes, variant, client>>

\* the connection to the file host breaks while the body is being copied
StreamAbort(r) ==
    /\ r \in Streaming
    /\ streams[r].pending # <<>>
    /\ streams' = [streams EXCEPT ![r].state = "errored"]
    /\ UNCHANGED <<cache, requests, now, writes, variant, client>>

StreamRequests ==
    {[method |-> "GET", query |-> [id |-> IdA], headers |-> <<>>],
     [method |-> "GET", query |-> [id |-> IdA], headers |-> ("range" :> "bytes=2-5")],
     [method |-> "GET", query |-> [id |-> IdA, format |-> "json"], headers |-> <<>>]}

StreamInfoOutcomes == {[kind |-> "http", status |-> 200, json |-> Meta1]}

StreamDownloadOutcomes ==
    {[kind |-> "http", status |-> 200, json |-> [downloadLink |-> "https://d1/file"]]}

\* answers of the file host: a body of three bytes in two chunks with its
\* length declared, a body of ten bytes in three chunks sent without a
\* Content-Length, a partial answer, and a refusal
StreamFileOutcomes ==
    {[kind |-> "http", status |-> 200,
      headers |-> ("content-type" :> "video/mp4" @@ "content-length" :> "3"),
      body |-> <<<<1, 2>>, <<3>>>>],
     [kind |-> "http", status |-> 200,
      headers |-> ("content-type" :> "video/mp4"),
      body |-> <<<<0, 1, 2, 3>>, <<4, 5, 6>>, <<7, 8, 9>>>>],
     [kind |-> "http", status |-> 206,
      headers |-> ("content-length" :> "4" @@ "content-range" :> "bytes 2-5/10"),
      body |-> <<<<2, 3>>, <<4, 5>>>>],
     [kind |-> "http", status |-> 404, headers |-> <<>>, body |-> <<>>]}

NextStream ==
    \/ \E request \in StreamRequests : GET_CacheHit(request)
    \/ \E request \in StreamRequests : GET_CacheMiss(request)
    \/ \E r \in 1..MaxRequests, outcome \in StreamInfoOutcomes : GetInfoSettles(r, outcome)
    \/ \E r \in 1..MaxRequests, outcome \in StreamDownloadOutcomes :
          GetDownloadSettles(r, outcome)
    \/ \E r \in 1..MaxRequests, outcome \in StreamFileOutcomes : FileSettles(r, outcome)
    \/ \E r \in 1..MaxRequests : StreamChunk(r)
    \/ \E r \in 1..MaxRequests : StreamEnd(r)
    \/ \E r \in 1..MaxRequests : ClientDisconnect(r)
    \/ \E r \in 1..MaxRequests : StreamAbort(r)
    \/ \E t \in Instants : Tick(t)

SpecStream == Init /\ [][NextStream]_vars

-----------------------------------------------------------------------------
(* fetchWithTimeout followed step by step: the timer of setTimeout, the    *)
(* fetch, and the reading of the body, which the same signal can abort.    *)
(* The rejection of an aborted operation follows the abort without delay,  *)
(* and a timer that is due fires before the clock moves past its instant.  *)

\* the instants the clock of these calls takes
FetchInstants == {0, 4000, API_TIMEOUT, 4000 + API_TIMEOUT, 2 * API_TIMEOUT}

FetchUrls == {"get-info", "get-download"}

FetchStatuses == {200, 500}

\* const controller = new AbortController();
\* const timeout = setTimeout(() => controller.abort(), API_TIMEOUT);
NewFetch(url, t) ==
    [url |-> url, pc |-> "fetch", timer |-> "armed", deadline |-> t + API_TIMEOUT,
     start |-> t, ended |-> t, aborted |-> FALSE, firedLate |-> FALSE,
     status |-> 0, result |-> Null]

\* a mutant of the finally block: the timer is left running
ClearTimer_leak(timer) == timer

\* finally { clearTimeout(timeout) }: nothing to do for a timer that has fired
ClearTimer(timer) == IF timer = "armed" THEN "cleared" ELSE timer

\* the catch block: an AbortError becomes 'Request timed out', any other
\* error is thrown again as it is
Rethrown(error) ==
    IF error.name = "AbortError"
    THEN [kind |-> "error", message |-> "Request timed out"]
    ELSE [kind |-> "error", message |-> error.message]

\* the call returns or throws, through the finally block
Settle(f, result, t) ==
    [f EXCEPT !.pc = "done", !.result = result, !.timer = ClearTimer(@), !.ended = t]

Pending == {i \in 1..Len(fetches) : fetches[i].pc # "done"}

FetchStart(url) ==
    /\ Len(fetches) < MaxCalls
    /\ fetches' = Append(fetches, NewFetch(url, now))
    /\ UNCHANGED <<cache, requests, now, writes, variant, streams, page>>

\* await fetch(...) resolves: the status line and the headers have arrived
FetchResolves(i, status) ==
    /\ i \in Pending
    /\ fetches[i].pc = "fetch"
    /\ ~fetches[i].aborted
    /\ fetches' = [fetches EXCEPT ![i].status = status,
                                  ![i].pc = IF Ok(status) THEN "json" ELSE "text"]
    /\ UNCHANGED <<cache, requests, now, writes, variant, streams, page>>

\* await fetch(...) rejects: no connection, a failure of the network
FetchRejects(i) ==
    /\ i \in Pending
    /\ fetches[i].pc = "fetch"
    /\ ~fetches[i].aborted
    /\ fetches' = [fetches EXCEPT ![i] =
          Settle(@, Rethrown([name |-> "TypeError", message |-> "fetch failed"]), now)]
    /\ UNCHANGED <<cache, requests, now, writes, variant, streams, page>>

\* await response.text() of an answer that is not ok, and the throw
TextRead(i) ==
    /\ i \in Pending
    /\ fetches[i].pc = "text"
    /\ ~fetches[i].aborted
    /\ fetches' = [fetches EXCEPT ![i] =
          Settle(@, Rethrown([name |-> "Error",
                              message |-> "HTTP error! status: " \o
                                          ToString(fetches[i].status)]), now)]
    /\ UNCHANGED <<cache, requests, now, writes, variant, streams, page>>

\* return await response.json()
JsonParsed(i) ==
    /\ i \in Pending
    /\ fetches[i].pc = "json"
    /\ ~fetches[i].aborted
    /\ fetches' = [fetches EXCEPT ![i] = Settle(@, [kind |-> "parsed"], now)]
    /\ UNCHANGED <<cache, requests, now, writes, variant, streams, page>>

\* response.json() rejects: the body is not JSON
JsonFails(i) ==
    /\ i \in Pending
    /\ fetches[i].pc = "json"
    /\ ~fetches[i].aborted
    /\ fetches' = [fetches EXCEPT ![i] =
          Settle(@, Rethrown([name |-> "SyntaxError", message |-> "Unexpected token"]), now)]
    /\ UNCHANGED <<cache, requests, now, writes, variant, streams, page>>

\* the callback of setTimeout: controller.abort()
TimerFires(i) ==
    /\ i \in 1..Len(fetches)
    /\ fetches[i].timer = "armed"
    /\ now >= fetches[i].deadline
    /\ fetches' = [fetches EXCEPT ![i].timer = "fired", ![i].aborted = TRUE,
                                  ![i].firedLate = (fetches[i].pc = "done")]
    /\ UNCHANGED <<cache, requests, now, writes, variant, streams, page>>

\* the pending fetch or body read rejects with an AbortError
AbortRejects(i) ==
    /\ i \in Pending
    /\ fetches[i].aborted
    /\ fetches' = [fetches EXCEPT ![i] =
          Settle(@, Rethrown([name |-> "AbortError", message |-> "This operation was aborted"]),
                 now)]
    /\ UNCHANGED <<cache, requests, now, writes, variant, streams, page>>

FetchTick(t) ==
    /\ t \in FetchInstants
    /\ t > now
    /\ \A i \in 1..Len(fetches) :
          /\ fetches[i].timer = "armed" => t <= fetches[i].deadline
          /\ ~(fetches[i].aborted /\ fetches[i].pc # "done")
    /\ now' = t
    /\ UNCHANGED <<cache, requests, writes, variant, streams, fetches, page>>

NextFetch ==
    \/ \E url \in FetchUrls : FetchStart(url)
    \/ \E i \in 1..MaxCalls, status \in FetchStatuses : FetchResolves(i, status)
    \/ \E i \in 1..MaxCalls : FetchRejects(i)
    \/ \E i \in 1..MaxCalls : TextRead(i)
    \/ \E i \in 1..MaxCalls : JsonParsed(i)
    \/ \E i \in 1..MaxCalls : JsonFails(i)
    \/ \E i \in 1..MaxCalls : TimerFires(i)
    \/ \E i \in 1..MaxCalls : AbortRejects(i)
    \/ \E t \in FetchInstants : FetchTick(t)

SpecFetch == Init /\ [][NextFetch]_vars

-----------------------------------------------------------------------------
(* The page in the browser: the identifier extractor extractSurlId.  A URL  *)
(* is a sequence of characters; new URL and URLSearchParams are modelled   *)
(* by what they do to that sequence.                                       *)

None == Null

Some(value) == [value |-> value]

RECURSIVE IndexOf(_, _, _)
\* the first position from i on at which s has the character c, 0 if none
IndexOf(s, c, i) ==
    IF i > Len(s) THEN 0
    ELSE IF s[i] = c THEN i ELSE IndexOf(s, c, i + 1)

RECURSIVE Split(_, _)
\* s.split(sep), sep one character
Split(s, sep) ==
    LET k == IndexOf(s, sep, 1)
    IN  IF k = 0 THEN <<s>>
        ELSE <<SubSeq(s, 1, k - 1)>> \o Split(SubSeq(s, k + 1, Len(s)), sep)

\* array.pop(): the last element
Pop(array) == array[Len(array)]

\* the part of the string before its fragment
BeforeHash(url) ==
    LET k == IndexOf(url, "#", 1)
    IN  IF k = 0 THEN url ELSE SubSeq(url, 1, k - 1)

RECURSIVE SkipSlashes(_)
\* the string without the slashes it starts with
SkipSlashes(s) ==
    IF s = <<>> THEN s
    ELSE IF Head(s) = "/" THEN SkipSlashes(Tail(s)) ELSE s

RECURSIVE UpToDelimiter(_)
\* the string up to its first "/", "?" or "#"
UpToDelimiter(s) ==
    IF s = <<>> THEN s
    ELSE IF Head(s) \in {"/", "?", "#"} THEN <<>>
    ELSE <<Head(s)>> \o UpToDelimiter(Tail(s))

\* the characters between the scheme and the path, query or fragment
Authority(rest) == UpToDelimiter(SkipSlashes(rest))

\* new URL(url) does not throw: the string starts with a scheme and ":", and
\* for http and https a host without forbidden characters follows
ParsesAsUrl(url) ==
    LET k == IndexOf(url, ":", 1)
    IN  IF k < 2 THEN FALSE
        ELSE IF \E i \in 1..(k - 1) : url[i] \notin Lower \cup Upper THEN FALSE
        ELSE IF SubSeq(url, 1, k - 1) \notin {<<"h", "t", "t", "p", "s">>, <<"h", "t", "t", "p">>}
             THEN TRUE
        ELSE LET host == Authority(SubSeq(url, k + 1, Len(url)))
             IN  /\ host # <<>>
                 /\ \A i \in 1..Len(host) : host[i] \notin {" ", "<", ">", "%"}

\* urlObj.search without its "?"
Search(url) ==
    LET s == BeforeHash(url)
        k == IndexOf(s, "?", 1)
    IN  IF k = 0 THEN <<>> ELSE SubSeq(s, k + 1, Len(s))

\* the character a percent escape stands for
Unescape(h1, h2) ==
    CASE <<h1, h2>> = <<"2", "0">> -> " "
      [] <<h1, h2>> = <<"2", "3">> -> "#"
      [] <<h1, h2>> = <<"2", "5">> -> "%"
      [] <<h1, h2>> = <<"2", "6">> -> "&"
      [] <<h1, h2>> = <<"2", "B">> -> "+"
      [] <<h1, h2>> = <<"2", "F">> -> "/"
      [] <<h1, h2>> = <<"3", "D">> -> "="
      [] <<h1, h2>> = <<"3", "F">> -> "?"
      [] OTHER -> ""

RECURSIVE Decode(_)
\* the decoding URLSearchParams applies to names and values: "+" is a space
\* and a percent escape is the character it stands for
Decode(s) ==
    IF s = <<>> THEN <<>>
    ELSE IF Head(s) = "+" THEN <<" ">> \o Decode(Tail(s))
    ELSE IF Head(s) = "%"
         THEN IF Len(s) >= 3
              THEN IF Unescape(s[2], s[3]) # ""
                   THEN <<Unescape(s[2], s[3])>> \o Decode(SubSeq(s, 4, Len(s)))
                   ELSE <<"%">> \o Decode(Tail(s))
              ELSE <<"%">> \o Decode(Tail(s))
    ELSE <<Head(s)>> \o Decode(Tail(s))

\* the name and value pairs of urlObj.searchParams, in their order
SearchParams(url) ==
    LET pieces == SelectSeq(Split(Search(url), "&"), LAMBDA p : p # <<>>)
        Pair(p) == LET k == IndexOf(p, "=", 1)
                   IN  IF k = 0 THEN [name |-> Decode(p), value |-> <<>>]
                       ELSE [name |-> Decode(SubSeq(p, 1, k - 1)),
                             value |-> Decode(SubSeq(p, k + 1, Len(p)))]
    IN  [i \in 1..Len(pieces) |-> Pair(pieces[i])]

\* a mutant of searchParams.get: the last pair of the name, not the first
SearchParamsGet_last(url, name) ==
    LET params == SearchParams(url)
        found == {i \in 1..Len(params) : params[i].name = name}
    IN  IF found = {} THEN None
        ELSE Some(params[CHOOSE i \in found : \A j \in found : j <= i].value)

\* urlObj.searchParams.get(name): the value of the first pair of that name
SearchParamsGet(url, name) ==
    LET params == SearchParams(url)
        found == {i \in 1..Len(params) : params[i].name = name}
    IN  IF found = {} THEN None
        ELSE Some(params[CHOOSE i \in found : \A j \in found : i <= j].value)

\* a || b for string | null | undefined: the first that is not empty
OrElse(a, b) == IF a # None /\ a # Some(<<>>) THEN a ELSE b

Surl == <<"s", "u", "r", "l">>

\* the versions of the page in the repository
PageVariants == {"page", "part_002"}

\* a mutant of the extractor: the string is searched without being parsed
extractSurlId_unparsed(v, url) ==
    IF v = "part_002"
    THEN OrElse(SearchParamsGet(url, Surl), None)
    ELSE OrElse(SearchParamsGet(url, Surl),
                OrElse(Some(Split(Pop(Split(url, "/")), "?")[1]), None))

\* extractSurlId of page.tsx (and part_000), and of the page of part_002,
\* which takes the surl parameter only
extractSurlId(v, url) ==
    IF ~ParsesAsUrl(url) THEN None
    ELSE IF v = "part_002"
         THEN OrElse(SearchParamsGet(url, Surl), None)
         ELSE OrElse(SearchParamsGet(url, Surl),
                     OrElse(Some(Split(Pop(Split(url, "/")), "?")[1]), None))

\* a character of a value as it is written in a URL: with the escapes a
\* query needs ("needed"), with "+" for a space ("plus"), or with every
\* reserved character escaped ("all", as encodeURIComponent does)
Escape(c, style) ==
    CASE c = " " -> IF style = "plus" THEN <<"+">> ELSE <<"%", "2", "0">>
      [] c = "#" -> <<"%", "2", "3">>
      [] c = "%" -> <<"%", "2", "5">>
      [] c = "&" -> <<"%", "2", "6">>
      [] c = "+" -> <<"%", "2", "B">>
      [] c = "/" -> IF style = "all" THEN <<"%", "2", "F">> ELSE <<c>>
      [] c = "=" -> IF style = "all" THEN <<"%", "3", "D">> ELSE <<c>>
      [] c = "?" -> IF style = "all" THEN <<"%", "3", "F">> ELSE <<c>>
      [] OTHER -> <<c>>

RECURSIVE Written(_, _)
Written(value, style) ==
    IF value = <<>> THEN <<>>
    ELSE Escape(Head(value), style) \o Written(Tail(value), style)

\* the state of the page before a URL is submitted: the state hooks of Home,
\* the position of handleSubmit (pc) with its local surlId and the requests
\* its current run has issued; the timers set and the streamed downloads
\* in flight, and counts of the clicks on a download button (attempts), of
\* the streamed downloads that failed and of the calls of triggerDownload
\* made by the fallback timer
NewPage(v, input) ==
    [variant |-> v, input |-> input, inputUrl |-> input.url, pc |-> "idle",
     surlId |-> None, loading |-> FALSE, error |-> "", issued |-> <<>>,
     videoInfo |-> None, downloadProgress |-> None, downloadStarted |-> FALSE,
     timers |-> <<>>, pending |-> <<>>, attempts |-> 0, failures |-> 0,
     fallbacks |-> 0]

\* handleSubmit up to the call of the extractor, when the form is submitted
\* for the first time or again: setLoading(true), setError(""),
\* setDownloadProgress(null), setDownloadStarted(false), const surlId =
\* extractSurlId(inputUrl); the extractor of part_002 sets the error itself
\* when it returns null
ExtractSurl ==
    /\ page # Null
    /\ page.pc \in {"idle", "done"}
    /\ page' = [page EXCEPT !.surlId = extractSurlId(page.variant, page.inputUrl),
                            !.loading = TRUE,
                            !.issued = <<>>,
                            !.downloadProgress = None,
                            !.downloadStarted = FALSE,
                            !.error = IF page.variant = "part_002"
                                         /\ extractSurlId(page.variant, page.inputUrl) = None
                                      THEN "Please enter a valid Terabox sharing URL"
                                      ELSE "",
                            !.pc = "extracted"]
    /\ UNCHANGED <<cache, requests, now, writes, variant, streams, fetches>>

\* `/api/get-link?id=${surlId}&format=json`
GetLinkUrl(surlId) ==
    <<"/", "a", "p", "i", "/", "g", "e", "t", "-", "l", "i", "n", "k", "?", "i", "d", "=">>
        \o surlId \o <<"&", "f", "o", "r", "m", "a", "t", "=", "j", "s", "o", "n">>

\* `/api/stream-link?id=${encodeURIComponent(surlId)}`
StreamLinkUrl(surlId) ==
    <<"/", "a", "p", "i", "/", "s", "t", "r", "e", "a", "m", "-", "l", "i", "n", "k", "?",
      "i", "d", "=">> \o Written(surlId, "all")

\* handleSubmit after the extractor returned. page.tsx: if (!surlId) throw,
\* caught by the handler's own catch, else axios.get of the get-link URL.
\* part_002: if (!surlId) return, else a click on a link to the stream-link
\* URL; in both the finally block ends the handler unless a request is awaited
SubmitRequest ==
    /\ page # Null
    /\ page.pc = "extracted"
    /\ page' =
        IF page.surlId = None
        THEN [page EXCEPT !.error = IF page.variant = "page"
                                    THEN "Invalid Terabox URL format" ELSE @,
                          !.loading = FALSE,
                          !.pc = "done"]
        ELSE IF page.variant = "page"
        THEN [page EXCEPT !.issued = Append(@, GetLinkUrl(page.surlId.value)),
                          !.pc = "awaiting"]
        ELSE [page EXCEPT !.issued = Append(@, StreamLinkUrl(page.surlId.value)),
                          !.loading = FALSE,
                          !.pc = "done"]
    /\ UNCHANGED <<cache, requests, now, writes, variant, streams, fetches>>

\* what the get-link request of the page can come to: a body with or without
\* downloadUrl, or an error of axios (a status outside 2xx, the network)
VideoFile == [downloadUrl |-> "https://d1/file", fileName |-> "a.mp4", fileSize |-> 10]
SubmitOutcomes ==
    {[ok |-> TRUE, data |-> VideoFile],
     [ok |-> TRUE, data |-> [fileName |-> "a.mp4", fileSize |-> 10]],
     [ok |-> FALSE, message |-> "Request failed with status code 500"]}

\* handleSubmit after the await: setVideoInfo, or the catch with setError,
\* and the finally block
SubmitSettles(outcome) ==
    /\ page # Null
    /\ page.pc = "awaiting"
    /\ page' =
        IF ~outcome.ok
        THEN [page EXCEPT !.error = outcome.message, !.loading = FALSE, !.pc = "done"]
        ELSE IF ~Has(outcome.data, "downloadUrl")
        THEN [page EXCEPT !.error = "Failed to retrieve download URL",
                          !.loading = FALSE, !.pc = "done"]
        ELSE [page EXCEPT !.videoInfo = Some(outcome.data), !.loading = FALSE,
                          !.pc = "done"]
    /\ UNCHANGED <<cache, requests, now, writes, variant, streams, fetches>>

\* setInputUrl: the user enters another URL once the handler has ended
SetInputUrl(input) ==
    /\ page # Null
    /\ page.pc = "done"
    /\ page.input # input
    /\ page' = NewPage(page.variant, input)
    /\ UNCHANGED <<cache, requests, now, writes, variant, streams, fetches>>

(* The URLs entered: built from a path, a list of query parameters written *)
(* in one of the ways a browser or a person writes them, and a fragment;   *)
(* and strings that are no URL.                                            *)

Origin == <<"h", "t", "t", "p", "s", ":", "/", "/", "t", ".", "c", "o">>

UrlPaths ==
    {<<>>, <<"/">>, <<"/", "s", "/", "1", "a", "b">>, <<"/", "s", "/", "a", "b", "/">>,
     <<"/", "s", "/", "a", "1", "b">>,
     <<"/", "w", "a", "p", "/", "s", "h", "a", "r", "e">>,
     <<"/", "w", "a", "p", "/", "s", "h", "a", "r", "e", "/">>}

Param(name, value) == [name |-> name, value |-> value]

UrlParams ==
    {<<>>,
     <<Param(Surl, <<"1", "X", "y", "_", "-", "9">>)>>,
     <<Param(Surl, <<>>)>>,
     <<Param(<<"p", "w", "d">>, <<"1">>), Param(Surl, <<"a", "b", "c">>)>>,
     <<Param(Surl, <<"f", "i", "r", "s", "t">>), Param(Surl, <<"l", "a", "s", "t">>)>>,
     <<Param(Surl, <<"a", " ", "b">>)>>,
     <<Param(Surl, <<"a", "/", "b", "?", "c">>)>>,
     <<Param(Surl, <<"a", "=", "b", "&", "c">>)>>,
     <<Param(Surl, <<"a", "+", "#", "%">>)>>,
     <<Param(<<"x", "s", "u", "r", "l">>, <<"q">>)>>}

UrlFragments == {<<>>, <<"#", "s", "u", "r", "l", "=", "f">>}

\* how a value is written in a query: with the escapes a query needs, with
\* "+" for a space, or with every reserved character escaped
Styles == {"needed", "plus", "all"}

RECURSIVE WrittenParams(_, _)
WrittenParams(params, style) ==
    IF params = <<>> THEN <<>>
    ELSE Written(Head(params).name, style) \o <<"=">> \o Written(Head(params).value, style)
         \o (IF Tail(params) = <<>> THEN <<>> ELSE <<"&">>)
         \o WrittenParams(Tail(params), style)

BuiltUrl(path, params, style, fragment) ==
    Origin \o path \o (IF params = <<>> THEN <<>> ELSE <<"?">> \o WrittenParams(params, style))
           \o fragment

\* strings that new URL rejects
NotUrls ==
    {<<>>, <<"n", "o", "t", " ", "a", " ", "u", "r", "l">>,
     <<"t", ".", "c", "o", "/", "s", "/", "1", "a", "b", "?", "s", "u", "r", "l", "=", "x">>,
     <<"h", "t", "t", "p", "s", ":", "/", "/">>,
     <<"h", "t", "t", "p", "s", ":", "/", "/", "?", "s", "u", "r", "l", "=", "x">>}

PageInputs ==
    {[url |-> BuiltUrl(path, params, style, fragment), parses |-> TRUE, path |-> path,
      params |-> params, style |-> style, fragment |-> fragment] :
        path \in UrlPaths, params \in UrlParams, style \in Styles, fragment \in UrlFragments}
    \cup {[url |-> u, parses |-> FALSE, path |-> <<>>, params |-> <<>>, style |-> "needed",
           fragment |-> <<>>] : u \in NotUrls}

InitPage ==
    /\ cache = <<>>
    /\ requests = <<>>
    /\ now = 0
    /\ writes = <<>>
    /\ variant = "route"
    /\ streams = <<>>
    /\ fetches = <<>>
    /\ page \in {NewPage(v, input) : v \in PageVariants, input \in PageInputs}

NextPage ==
    \/ ExtractSurl
    \/ SubmitRequest
    \/ \E outcome \in SubmitOutcomes : SubmitSettles(outcome)
    \/ \E input \in PageInputs : SetInputUrl(input)

SpecPage == InitPage /\ [][NextPage]_vars

-----------------------------------------------------------------------------
(* The two-step resolution in the route and in the older route of          *)
(* part_002 (api/download), which has no cache, no timeout and no          *)
(* expression for the id.                                                  *)

\* NextResponse.json({ error: 'No ID provided in the URL' }, { status: 400 })
NoIdResponse == [status |-> 400, json |-> [error |-> "No ID provided in the URL"]]

\* NextResponse.json({ error: 'Internal server error', message }, { status: 500 })
InternalErrorResponse(message) ==
    [status |-> 500, json |-> [error |-> "Internal server error", message |-> message]]

\* jsonResult.list?.[0]?.fs_id is not undefined
HasFirstFsId(jsonResult) ==
    IF Has(jsonResult, "list") THEN Len(jsonResult.list) >= 1 ELSE FALSE

\* JSON.stringify(postData) of part_002: a field that is undefined is left out
DownloadPostData(jsonResult) ==
    IF HasFirstFsId(jsonResult)
    THEN [shareid |-> jsonResult.shareid, uk |-> jsonResult.uk, sign |-> jsonResult.sign,
          timestamp |-> jsonResult.timestamp, fs_id |-> jsonResult.list[1].fs_id]
    ELSE [shareid |-> jsonResult.shareid, uk |-> jsonResult.uk, sign |-> jsonResult.sign,
          timestamp |-> jsonResult.timestamp]

\* part_002 lines 5-12: no id in the URL
Download_NoId(request) ==
    /\ variant = "part_002"
    /\ Len(requests) < MaxRequests
    /\ Falsy(request.query, "id")
    /\ requests' = Append(requests, Finish(NewRequest(request), NoIdResponse))
    /\ UNCHANGED <<cache, now, writes, variant, streams, client>>

\* part_002 lines 5-18: the get-info GET is issued
Download_Start(request) ==
    /\ variant = "part_002"
    /\ Len(requests) < MaxRequests
    /\ ~Falsy(request.query, "id")
    /\ requests' = Append(requests,
          Call([NewRequest(request) EXCEPT !.pc = "get-info"],
               [kind |-> "get-info", shorturl |-> request.query.id, headers |-> <<>>]))
    /\ UNCHANGED <<cache, now, writes, variant, streams, client>>

\* part_002 lines 18-54: the get-info fetch settles; the POST is issued with
\* what the body holds
Download_InfoSettles(r, outcome) ==
    /\ variant = "part_002"
    /\ r \in 1..Len(requests)
    /\ requests[r].pc = "get-info"
    /\ LET rec == Reply(requests[r], outcome)
       IN  requests' = [requests EXCEPT ![r] =
              IF outcome.kind # "http"
              THEN Finish(rec, InternalErrorResponse("fetch failed"))
              ELSE IF ~Ok(outcome.status)
              THEN Finish(rec, InternalErrorResponse(
                       "First API request failed with status: " \o ToString(outcome.status)))
              ELSE IF outcome.json = Null
              THEN Finish(rec, InternalErrorResponse("Cannot read properties of null"))
              ELSE Call([rec EXCEPT !.metadata = outcome.json, !.pc = "get-download"],
                        [kind |-> "get-download", body |-> DownloadPostData(outcome.json),
                         headers |-> ("content-type" :> "application/json")])]
    /\ UNCHANGED <<cache, now, writes, variant, streams, client>>

\* part_002 lines 56-83: the POST settles; a redirect to the link, or the
\* body of the answer as it is
Download_PostSettles(r, outcome) ==
    /\ variant = "part_002"
    /\ r \in 1..Len(requests)
    /\ requests[r].pc = "get-download"
    /\ LET rec == Reply(requests[r], outcome)
       IN  requests' = [requests EXCEPT ![r] =
              IF outcome.kind # "http"
              THEN Finish(rec, InternalErrorResponse("fetch failed"))
              ELSE IF ~Ok(outcome.status)
              THEN Finish(rec, InternalErrorResponse(
                       "Second API request failed with status: " \o ToString(outcome.status)))
              ELSE IF outcome.json = Null
              THEN Finish(rec, InternalErrorResponse("Cannot read properties of null"))
              ELSE IF HasDownloadLink(outcome.json)
              THEN Finish([rec EXCEPT !.downloadLink = outcome.json.downloadLink],
                          [status |-> 302, location |-> outcome.json.downloadLink])
              ELSE Finish(rec, [status |-> 200, json |-> outcome.json])]
    /\ UNCHANGED <<cache, now, writes, variant, streams, client>>

InitResolve ==
    /\ cache = <<>>
    /\ requests = <<>>
    /\ now = 0
    /\ writes = <<>>
    /\ variant \in {"route", "part_002"}
    /\ streams = <<>>
    /\ fetches = <<>>
    /\ page = Null

ResolveRequests ==
    {[method |-> "GET", query |-> q, headers |-> <<>>] :
        q \in {<<>>, [id |-> IdEmpty], [id |-> IdTooShort], [id |-> IdA],
               [id |-> IdA, format |-> "json"]}}

\* how a fetch of the helper API settles: the timer or the network, a
\* non-2xx answer, or a 2xx answer with a JSON body
ResolveInfoOutcomes ==
    {[kind |-> "abort"], [kind |-> "network"], [kind |-> "http", status |-> 500]}
    \cup {[kind |-> "http", status |-> 200, json |-> b] : b \in InfoBodies}

ResolveDownloadOutcomes ==
    {[kind |-> "network"], [kind |-> "http", status |-> 403],
     [kind |-> "http", status |-> 200, json |-> [downloadLink |-> "https://d1/file"]],
     [kind |-> "http", status |-> 200, json |-> [error |-> "expired"]]}

NextResolve ==
    \/ variant = "route" /\ \E request \in ResolveRequests : GET_InvalidId(request)
    \/ variant = "route" /\ \E request \in ResolveRequests : GET_CacheHit(request)
    \/ variant = "route" /\ \E request \in ResolveRequests : GET_CacheMiss(request)
    \/ variant = "route" /\ \E r \in 1..MaxRequests, outcome \in ResolveInfoOutcomes \ {[kind |-> "network"]} :
          GetInfoSettles(r, outcome)
    \/ variant = "route" /\ \E r \in 1..MaxRequests, outcome \in ResolveDownloadOutcomes :
          GetDownloadSettles(r, outcome)
    \/ variant = "route" /\ \E r \in 1..MaxRequests, outcome \in FileOutcomes :
          FileSettles(r, outcome)
    \/ \E request \in ResolveRequests : Download_NoId(request)
    \/ \E request \in ResolveRequests : Download_Start(request)
    \/ \E r \in 1..MaxRequests, outcome \in ResolveInfoOutcomes \ {[kind |-> "abort"]} :
          Download_InfoSettles(r, outcome)
    \/ \E r \in 1..MaxRequests, outcome \in ResolveDownloadOutcomes :
          Download_PostSettles(r, outcome)

SpecResolve == InitResolve /\ [][NextResolve]_vars

-----------------------------------------------------------------------------
(* The downloads of the page: triggerDownload, downloadWithProgress, their *)
(* timers and the effect of Home that resets the progress.  Time is kept   *)
(* in the timers: each holds the seconds left until it is due.             *)

\* the clicks on a download button in one behaviour
MaxAttempts == 2

\* a file of up to 100 MB, one above 100 MB and one above 1 GB
SmallFile == [downloadUrl |-> "https://d1/file", fileName |-> "a.mp4", fileSize |-> 10]

LargeFile ==
    [downloadUrl |-> "https://d1/file", fileName |-> "b.mp4",
     fileSize |-> 100 * 1024 * 1024 + 1]

HugeFile ==
    [downloadUrl |-> "https://d1/file", fileName |-> "c.mp4",
     fileSize |-> 1024 * 1024 * 1024 + 1]

\* videoInfo && videoInfo.fileSize > 100 * 1024 * 1024
isLargeFile(videoInfo) ==
    IF videoInfo = None THEN FALSE ELSE videoInfo.value.fileSize > 100 * 1024 * 1024

\* setTimeout(callback, seconds * 1000)
SetTimeout(timers, kind, seconds) == Append(timers, [kind |-> kind, left |-> seconds])

\* a mutant of triggerDownload: it does not set the timer of 3 s
triggerDownload_noTimer(p) ==
    IF p.videoInfo = None THEN p ELSE [p EXCEPT !.downloadStarted = TRUE]

\* triggerDownload: nothing without videoInfo; else setDownloadStarted(true),
\* the click on the link, and the timer that sets downloadStarted to false
triggerDownload(p) ==
    IF p.videoInfo = None THEN p
    ELSE [p EXCEPT !.downloadStarted = TRUE,
                   !.timers = SetTimeout(@, "stop", 3)]

\* Math.round((loaded * 100) / (total || fileSize))
PercentCompleted(event, fileSize) ==
    LET total == IF event.total # 0 THEN event.total ELSE fileSize
    IN  (2 * event.loaded * 100 + total) \div (2 * total)

\* the progress events of a streamed download: with the total announced or
\* not, in the middle and at the end
ProgressEvents ==
    {[loaded |-> 2, total |-> 4], [loaded |-> 4, total |-> 4], [loaded |-> 3, total |-> 0]}

\* a sequence without its k-th element
Without(seq, k) == SubSeq(seq, 1, k - 1) \o SubSeq(seq, k + 1, Len(seq))

\* a click on a button that calls triggerDownload; the buttons are shown with
\* videoInfo and disabled while downloadStarted
ClickDirect ==
    /\ page # Null
    /\ page.videoInfo # None
    /\ ~page.downloadStarted
    /\ page.attempts < MaxAttempts
    /\ page' = [triggerDownload(page) EXCEPT !.attempts = @ + 1]
    /\ UNCHANGED <<cache, requests, now, writes, variant, streams, fetches>>

\* a click on the button shown for a large file: downloadWithProgress up to
\* its await; above 1 GB the link is opened, the progress set to 100 and
\* two timers are set, one before the return and one in the finally block
ClickStream ==
    /\ page # Null
    /\ isLargeFile(page.videoInfo)
    /\ ~page.downloadStarted
    /\ page.attempts < MaxAttempts
    /\ page' =
        IF page.videoInfo.value.fileSize > 1024 * 1024 * 1024
        THEN [page EXCEPT !.downloadStarted = TRUE,
                          !.downloadProgress = Some(100),
                          !.timers = SetTimeout(SetTimeout(@, "stop", 3), "stop", 3),
                          !.attempts = @ + 1]
        ELSE [page EXCEPT !.downloadStarted = TRUE,
                          !.downloadProgress = Some(0),
                          !.pending = Append(@, [loaded |-> 0,
                                                 videoInfo |-> page.videoInfo.value]),
                          !.attempts = @ + 1]
    /\ UNCHANGED <<cache, requests, now, writes, variant, streams, fetches>>

\* onDownloadProgress of the k-th streamed download in flight, with the
\* videoInfo of the render in which the download was started
DownloadProgress(k, event) ==
    /\ page # Null
    /\ k \in 1..Len(page.pending)
    /\ event.loaded > page.pending[k].loaded
    /\ page' = [page EXCEPT
                   !.pending[k].loaded = event.loaded,
                   !.downloadProgress =
                       Some(PercentCompleted(event, page.pending[k].videoInfo.fileSize))]
    /\ UNCHANGED <<cache, requests, now, writes, variant, streams, fetches>>

\* the streamed request resolves: the blob is saved, and the finally block
\* sets the timer of 3 s
StreamResolves(k) ==
    /\ page # Null
    /\ k \in 1..Len(page.pending)
    /\ page' = [page EXCEPT !.pending = Without(@, k),
                            !.timers = SetTimeout(@, "stop", 3)]
    /\ UNCHANGED <<cache, requests, now, writes, variant, streams, fetches>>

\* the streamed request rejects: the catch sets the error and the timer of
\* the fallback, the finally block the timer of 3 s
StreamRejects(k) ==
    /\ page # Null
    /\ k \in 1..Len(page.pending)
    /\ page' = [page EXCEPT
                   !.pending = Without(@, k),
                   !.error = "Download failed. Trying direct download instead...",
                   !.failures = @ + 1,
                   !.timers = SetTimeout(SetTimeout(@, "fallback", 1), "stop", 3)]
    /\ UNCHANGED <<cache, requests, now, writes, variant, streams, fetches>>

\* the timers that are due, in the order they were set
Due(timers) == {i \in 1..Len(timers) : timers[i].left = 0}

\* the callback of the first timer that is due runs: triggerDownload for the
\* fallback, setDownloadStarted(false) for the others
TimerRuns ==
    /\ page # Null
    /\ Due(page.timers) # {}
    /\ LET i == CHOOSE i \in Due(page.timers) : \A j \in Due(page.timers) : i <= j
           rest == [page EXCEPT !.timers = Without(@, i)]
       IN  page' = IF page.timers[i].kind = "fallback"
                   THEN [triggerDownload(rest) EXCEPT !.fallbacks = @ + 1]
                   ELSE [rest EXCEPT !.downloadStarted = FALSE]
    /\ UNCHANGED <<cache, requests, now, writes, variant, streams, fetches>>

\* a second passes while no timer is due
SecondPasses ==
    /\ page # Null
    /\ page.timers # <<>>
    /\ Due(page.timers) = {}
    /\ page' = [page EXCEPT !.timers = [i \in 1..Len(@) |-> [@[i] EXCEPT !.left = @ - 1]]]
    /\ UNCHANGED <<cache, requests, now, writes, variant, streams, fetches>>

\* the effect of Home on [downloadStarted, downloadProgress]
ResetProgress ==
    /\ page # Null
    /\ ~page.downloadStarted
    /\ page.downloadProgress # None
    /\ page' = [page EXCEPT !.downloadProgress = None]
    /\ UNCHANGED <<cache, requests, now, writes, variant, streams, fetches>>

\* the URL submitted on the download page
DownloadInputs ==
    {input \in PageInputs :
        /\ input.path = <<"/", "s", "/", "1", "a", "b">>
        /\ input.params = <<>>
        /\ input.style = "needed"
        /\ input.fragment = <<>>}

\* what the get-link request comes to on the download page
VideoOutcomes ==
    {[ok |-> TRUE, data |-> SmallFile], [ok |-> TRUE, data |-> LargeFile],
     [ok |-> TRUE, data |-> HugeFile],
     [ok |-> FALSE, message |-> "Request failed with status code 500"]}

InitDownload ==
    /\ cache = <<>>
    /\ requests = <<>>
    /\ now = 0
    /\ writes = <<>>
    /\ variant = "route"
    /\ streams = <<>>
    /\ fetches = <<>>
    /\ page \in {NewPage("page", input) : input \in DownloadInputs}

NextDownload ==
    \/ ExtractSurl
    \/ SubmitRequest
    \/ \E outcome \in VideoOutcomes : SubmitSettles(outcome)
    \/ ClickDirect
    \/ ClickStream
    \/ \E k \in 1..MaxAttempts, event \in ProgressEvents : DownloadProgress(k, event)
    \/ \E k \in 1..MaxAttempts : StreamResolves(k)
    \/ \E k \in 1..MaxAttempts : StreamRejects(k)
    \/ TimerRuns
    \/ SecondPasses
    \/ ResetProgress

SpecDownload == InitDownload /\ [][NextDownload]_vars

\* the event loop runs a timer that is due, time passes, React runs the
\* effect after a render that changed its dependencies, and a streamed
\* request that was sent comes to an end, one way or the other
SpecDownloadLive ==
    /\ InitDownload
    /\ [][NextDownload]_vars
    /\ WF_vars(TimerRuns)
    /\ WF_vars(SecondPasses)
    /\ WF_vars(ResetProgress)
    /\ WF_vars(\E k \in 1..MaxAttempts : StreamResolves(k) \/ StreamRejects(k))

-----------------------------------------------------------------------------
(* Vocabulary of the properties, spelled out from the specification *)

\* the pattern ^[A-Za-z0-9_-]{6,}$ of the specification
MatchesIdPattern(id) ==
    /\ Len(id) >= 6
    /\ \A i \in 1..Len(id) :
          id[i] \in Lower \cup Upper \cup Digit \cup {"_", "-"}

\* the request carries an id that matches the pattern
HasValidId(rec) ==
    IF "id" \in DOMAIN rec.query THEN MatchesIdPattern(rec.query.id) ELSE FALSE

WantsJson(rec) ==
    IF "format" \in DOMAIN rec.query THEN rec.query.format = "json" ELSE FALSE

Started == 1..Len(requests)

CallsOf(rec, kind) == {i \in 1..Len(rec.calls) : rec.calls[i].kind = kind}

WritesBy(r) == {i \in 1..Len(writes) : writes[i].req = r}

WritesTo(id) == {i \in 1..Len(writes) : writes[i].id = id}

Max(S) == CHOOSE m \in S : \A n \in S : n <= m

\* the request found an entry at its cache check and was before its expiry
FoundFresh(rec) ==
    IF rec.cached = Null THEN FALSE ELSE rec.startTime < rec.cached.expiry

\* the i-th upstream call of the request was answered with a 2xx and a body
Answered(rec, i) ==
    IF i \in 1..Len(rec.replies)
    THEN IF rec.replies[i].kind = "http"
         THEN rec.replies[i].status >= 200 /\ rec.replies[i].status <= 299
         ELSE FALSE
    ELSE FALSE

\* the get-info answer has a non-empty list whose first file has an fs_id
MetadataUsable(rec) ==
    IF Answered(rec, 1)
    THEN LET m == rec.replies[1].json
         IN  IF m = Null THEN FALSE
             ELSE IF "list" \in DOMAIN m
                  THEN IF Len(m.list) > 0 THEN m.list[1].fs_id # "" ELSE FALSE
                  ELSE FALSE
    ELSE FALSE

\* the get-download answer has a non-empty downloadLink
LinkReceived(rec) ==
    IF MetadataUsable(rec) /\ Answered(rec, 2)
    THEN LET d == rec.replies[2].json
         IN  IF d = Null THEN FALSE
             ELSE IF "downloadLink" \in DOMAIN d THEN d.downloadLink # "" ELSE FALSE
    ELSE FALSE

\* the resolution of the request has failed at one of its steps
ResolutionFailed(rec) ==
    \/ Len(rec.replies) >= 1 /\ ~MetadataUsable(rec)
    \/ Len(rec.replies) >= 2 /\ ~LinkReceived(rec)

\* the entry a successful resolution of the request has to store
ResolvedLink(rec) == rec.replies[2].json.downloadLink

ResolvedFile(rec) == rec.replies[1].json.list[1]

-----------------------------------------------------------------------------
(* C1: a request whose id is absent or does not match ^[A-Za-z0-9_-]{6,}$   *)
(* gets 400 {error: "Invalid ID"}, issues no upstream call, never reads the *)
(* cache and never writes it.                                              *)
C1_InvalidIdRejected ==
    \A r \in Started :
        ~HasValidId(requests[r]) =>
            /\ requests[r].pc = "done"
            /\ requests[r].response = [status |-> 400, json |-> [error |-> "Invalid ID"]]
            /\ requests[r].calls = <<>>
            /\ requests[r].cached = Null
            /\ WritesBy(r) = {}

\* an id with a character outside the class, one of five characters and a
\* missing id have been rejected while the cache held an entry
C1_Witness ==
    /\ DOMAIN cache # {}
    /\ \E r \in Started :
          /\ requests[r].response = [status |-> 400, json |-> [error |-> "Invalid ID"]]
          /\ IF "id" \in DOMAIN requests[r].query
             THEN Len(requests[r].query.id) = 5
             ELSE FALSE

(* C2: when a request for an id is issued after an earlier request for the  *)
(* same id has completed successfully, and strictly before the expiry of   *)
(* the entry, it is served from the cache: the two requests together issue *)
(* at most one get-info GET and one get-download POST.                     *)
C2_SecondServedFromCache ==
    \A r1 \in Started : \A r2 \in Started :
        (/\ r1 \in requests[r2].after
         /\ HasValidId(requests[r1]) /\ HasValidId(requests[r2])
         /\ requests[r1].response.status \in {200, 206, 307}
         /\ requests[r1].query.id = requests[r2].query.id)
        => /\ requests[r2].cached # Null
           /\ requests[r2].startTime < requests[r2].cached.expiry =>
                 /\ requests[r2].pc = "done"
                 /\ requests[r2].response.status \in {200, 307}
                 /\ requests[r2].calls = <<>>
                 /\ Cardinality(CallsOf(requests[r1], "get-info")) <= 1
                 /\ Cardinality(CallsOf(requests[r1], "get-download")) <= 1

\* a second request arrived in the last millisecond of the entry the first
\* one had resolved and written, and was answered without any upstream call
C2_Witness ==
    \E r1 \in Started : \E r2 \in Started :
        /\ r1 \in requests[r2].after
        /\ HasValidId(requests[r1]) /\ HasValidId(requests[r2])
        /\ Len(requests[r1].calls) >= 2
        /\ requests[r1].response.status = 200
        /\ requests[r1].query.id = requests[r2].query.id
        /\ requests[r2].cached # Null
        /\ requests[r2].startTime = requests[r2].cached.expiry - 1
        /\ requests[r2].calls = <<>>

(* C3: a cache entry answers a request exactly when it exists and the time  *)
(* of the request is before its expiry; with no entry, or at or after the  *)
(* expiry, the handler issues the get-info GET and a successful resolution *)
(* overwrites the entry.                                                   *)
C3_FreshIffBeforeExpiry ==
    [][/\ Len(requests') = Len(requests) + 1 =>
            LET new == requests'[Len(requests')]
            IN  HasValidId(new) =>
                  LET id == new.query.id
                      usable == IF id \in DOMAIN cache THEN now < cache[id].expiry
                                ELSE FALSE
                  IN  /\ usable <=> /\ new.pc = "done"
                                    /\ new.calls = <<>>
                                    /\ new.response.status \in {200, 307}
                      /\ usable =>
                            IF WantsJson(new)
                            THEN new.response.json.downloadUrl = cache[id].link
                            ELSE new.response.location = cache[id].link
                      /\ ~usable =>
                            /\ new.pc = "get-info"
                            /\ Len(new.calls) = 1
                            /\ new.calls[1].kind = "get-info"
                            /\ new.calls[1].shorturl = id
       /\ \A r \in Started :
            (requests[r].pc = "get-download" /\ LinkReceived(requests'[r])) =>
                cache'[requests[r].query.id] =
                    [expiry |-> now + 300000,
                     link |-> ResolvedLink(requests'[r]),
                     metadata |-> ResolvedFile(requests'[r])]
      ]_vars

\* a request arrived at the very instant the entry expired, resolved the id
\* again and replaced the entry
C3_Witness ==
    \E r \in Started :
        /\ HasValidId(requests[r])
        /\ requests[r].cached # Null
        /\ requests[r].cached.expiry = requests[r].startTime
        /\ WritesBy(r) # {}
        /\ cache[requests[r].query.id].expiry = requests[r].startTime + 300000

(* C4: a request that finds a fresh entry returns at once without any       *)
(* upstream request: 200 with a JSON body built from the entry when        *)
(* format=json, a 307 redirect to the entry's link otherwise.  A GET that  *)
(* misses without format=json is never redirected: when it succeeds it has *)
(* fetched the resolved link and streams that answer.                      *)
C4_HitReturnsFromCache ==
    \A r \in Started :
        LET rec == requests[r]
        IN  HasValidId(rec) =>
              /\ FoundFresh(rec) =>
                    /\ rec.pc = "done"
                    /\ rec.calls = <<>>
                    /\ IF WantsJson(rec)
                       THEN /\ rec.response.status = 200
                            /\ rec.response.json =
                                   [downloadUrl |-> rec.cached.link,
                                    fileName |-> rec.cached.metadata.filename,
                                    fileSize |-> rec.cached.metadata.size]
                       ELSE /\ rec.response.status = 307
                            /\ rec.response.location = rec.cached.link
              /\ (~FoundFresh(rec) /\ ~WantsJson(rec) /\ rec.method = "GET"
                     /\ rec.pc = "done") =>
                    /\ rec.response.status # 307
                    /\ rec.response.status # 500 =>
                          /\ Cardinality(CallsOf(rec, "file")) = 1
                          /\ rec.calls[3].kind = "file"
                          /\ rec.calls[3].url = ResolvedLink(rec)
                          /\ rec.response.status = rec.replies[3].status
                          /\ rec.response.body = rec.replies[3].body

\* one request missed and streamed the file, a later one for the same id
\* without format was redirected to the link the first had resolved
C4_Witness ==
    \E r1 \in Started : \E r2 \in Started :
        /\ HasValidId(requests[r1]) /\ HasValidId(requests[r2])
        /\ requests[r1].query.id = requests[r2].query.id
        /\ ~WantsJson(requests[r1]) /\ ~WantsJson(requests[r2])
        /\ requests[r1].pc = "done" /\ requests[r2].pc = "done"
        /\ Len(requests[r1].calls) = 3
        /\ requests[r1].response.status = 200
        /\ requests[r2].response.status = 307
        /\ requests[r2].response.location = ResolvedLink(requests[r1])

(* C5: when the resolution fails at any step (get-info not 2xx or timed     *)
(* out, metadata invalid, get-download not 2xx or timed out, no            *)
(* downloadLink) the request ends in an error response and has not touched *)
(* the cache: the step that fails leaves the cache as it was and the       *)
(* request never writes an entry.                                          *)
C5_FailedResolutionWritesNothing ==
    /\ [](\A r \in Started :
            ResolutionFailed(requests[r]) =>
                /\ requests[r].pc = "done"
                /\ requests[r].response.status = 500
                /\ "error" \in DOMAIN requests[r].response.json
                /\ WritesBy(r) = {})
    /\ [][\A r \in Started :
            (ResolutionFailed(requests'[r]) /\ ~ResolutionFailed(requests[r])) =>
                cache' = cache /\ writes' = writes]_vars

\* a request found a stale entry, its get-download POST was answered without
\* a link, and the stale entry is still the one in the cache
C5_Witness ==
    \E r \in Started :
        /\ HasValidId(requests[r])
        /\ ResolutionFailed(requests[r])
        /\ Len(requests[r].replies) = 2
        /\ Answered(requests[r], 2)
        /\ requests[r].cached # Null
        /\ cache[requests[r].query.id] = requests[r].cached

(* C6: every successful resolution on a miss, whatever the format, writes   *)
(* exactly one cache entry, under the id of the request: the link of the   *)
(* get-download answer, the first file of the get-info list, and expiry =  *)
(* time of the write + 300000 ms; the entries of other ids are unchanged.  *)
C6_ResolutionWritesOneEntry ==
    /\ [](\A r \in Started :
            Cardinality(WritesBy(r)) = IF LinkReceived(requests[r]) THEN 1 ELSE 0)
    /\ [][\A r \in Started :
            (requests[r].pc = "get-download" /\ LinkReceived(requests'[r])) =>
                LET id == requests[r].query.id
                    e == [expiry |-> now + 300000,
                          link |-> ResolvedLink(requests'[r]),
                          metadata |-> ResolvedFile(requests'[r])]
                IN  /\ DOMAIN cache' = DOMAIN cache \cup {id}
                    /\ cache'[id] = e
                    /\ \A k \in DOMAIN cache \ {id} : cache'[k] = cache[k]
                    /\ writes' = Append(writes, [req |-> r, id |-> id, entry |-> e,
                                                 time |-> now])]_vars

\* a format=json request and a streaming request have each resolved an id of
\* their own, at different times, and the cache holds both entries
C6_Witness ==
    /\ Len(writes) = 2
    /\ writes[1].id # writes[2].id
    /\ writes[1].time < writes[2].time
    /\ WantsJson(requests[writes[1].req]) # WantsJson(requests[writes[2].req])
    /\ cache[writes[1].id] = writes[1].entry
    /\ cache[writes[2].id] = writes[2].entry
    /\ writes[1].entry.metadata.fs_id = "fs1"

(* C7: the life of an entry counts from the resolution that wrote it: a     *)
(* request served from the cache leaves the cache unchanged, an entry only *)
(* changes by the write of a resolution, and every entry expires 300000 ms *)
(* after the resolution that wrote it.                                     *)
C7_HitDoesNotExtend ==
    /\ [](\A id \in DOMAIN cache :
            \E i \in WritesTo(id) :
                /\ writes[i].entry = cache[id]
                /\ cache[id].expiry = writes[i].time + 300000)
    /\ [][/\ (Len(requests') = Len(requests) + 1
                /\ requests'[Len(requests')].calls = <<>>) => cache' = cache
           /\ \A id \in DOMAIN cache :
                /\ id \in DOMAIN cache'
                /\ cache'[id] # cache[id] =>
                      \E r \in Started :
                          /\ requests[r].pc = "get-download"
                          /\ requests[r].query.id = id
                          /\ LinkReceived(requests'[r])]_vars

\* a request was served from the cache in the last millisecond of the entry,
\* and the entry then expired, unchanged, at the instant set by its write
C7_Witness ==
    /\ Len(requests) >= 2
    /\ \E r \in Started :
          /\ FoundFresh(requests[r])
          /\ requests[r].startTime = requests[r].cached.expiry - 1
          /\ cache[requests[r].query.id] = requests[r].cached
          /\ now >= requests[r].cached.expiry

(* C8: two requests for the same id that both checked the cache before      *)
(* either wrote it may both resolve and both write; once both have         *)
(* finished the entry of the id is the one written last, and each request  *)
(* has answered with the link of its own resolution.                       *)
C8_LastWriteWins ==
    /\ \A id \in DOMAIN cache :
          /\ WritesTo(id) # {}
          /\ cache[id] = writes[Max(WritesTo(id))].entry
    /\ \A r1 \in Started : \A r2 \in Started \ {r1} :
          LET a == requests[r1]
              b == requests[r2]
          IN  (/\ HasValidId(a) /\ HasValidId(b)
               /\ a.query.id = b.query.id
               /\ a.cached = Null /\ b.cached = Null
               /\ a.pc = "done" /\ b.pc = "done"
               /\ LinkReceived(a) /\ LinkReceived(b))
              => /\ WritesBy(r1) # {} /\ WritesBy(r2) # {}
                 /\ \A rec \in {a, b} :
                       IF WantsJson(rec)
                       THEN /\ rec.response.status = 200
                            /\ rec.response.json.downloadUrl = ResolvedLink(rec)
                       ELSE /\ rec.calls[3].kind = "file"
                            /\ rec.calls[3].url = ResolvedLink(rec)

\* two first-time requests for one id resolved different links; the cache
\* holds the link of the second write, not that of the first
C8_Witness ==
    /\ Len(writes) = 2
    /\ writes[1].id = writes[2].id
    /\ writes[1].req # writes[2].req
    /\ requests[writes[1].req].cached = Null
    /\ requests[writes[2].req].cached = Null
    /\ requests[writes[1].req].pc = "done"
    /\ requests[writes[2].req].pc = "done"
    /\ writes[1].entry.link # writes[2].entry.link
    /\ cache[writes[2].id].link = writes[2].entry.link

\* the file host answered the GET of the request's download link with a 4xx
FileRefused(rec) ==
    IF Len(rec.replies) >= 3
    THEN IF rec.replies[3].kind = "http"
         THEN rec.replies[3].status >= 400 /\ rec.replies[3].status <= 499
         ELSE FALSE
    ELSE FALSE

(* C9, as claimed: when the file host answers the proxied GET with a 4xx    *)
(* the request is not failed on that first occurrence; the handler         *)
(* resolves the id again and retries the file GET once.                    *)
C9_RetriesOnce ==
    \A r \in Started :
        FileRefused(requests[r]) =>
            /\ Cardinality(CallsOf(requests[r], "get-info")) = 2
            /\ Cardinality(CallsOf(requests[r], "file")) = 2

(* C9, amended: when the file host answers the proxied GET with a 4xx the   *)
(* request fails on that first occurrence with a 500 error response; the   *)
(* handler neither resolves the id again nor repeats the file GET.         *)
C9_FailsWithoutRetry ==
    \A r \in Started :
        FileRefused(requests[r]) =>
            /\ requests[r].pc = "done"
            /\ requests[r].response.status = 500
            /\ "error" \in DOMAIN requests[r].response.json
            /\ Cardinality(CallsOf(requests[r], "get-info")) = 1
            /\ Cardinality(CallsOf(requests[r], "get-download")) = 1
            /\ Cardinality(CallsOf(requests[r], "file")) = 1

\* a request resolved its id, wrote the entry, and the file host answered 404
C9_Witness ==
    \E r \in Started :
        /\ FileRefused(requests[r])
        /\ requests[r].replies[3].status = 404
        /\ WritesBy(r) # {}
        /\ requests[r].pc = "done"

(* C10: when the inbound request has no Range header, the GET of the        *)
(* download link carries no Range header at all, not even an empty one.    *)
C10_NoRangeAdded ==
    \A r \in Started :
        \A i \in CallsOf(requests[r], "file") :
            "range" \notin DOMAIN requests[r].headers =>
                "range" \notin DOMAIN requests[r].calls[i].headers

-----------------------------------------------------------------------------
(* The streaming proxy, claims C11 to C15 *)

\* the allow-list as the specification describes it: conditional headers,
\* Range, and client-hint headers; the further request-context headers of
\* the list in the code that carry no credentials are counted in
SpecAllowList ==
    {"range", "if-range", "if-match", "if-none-match", "if-modified-since",
     "if-unmodified-since",
     "sec-ch-ua", "sec-ch-ua-mobile", "sec-ch-ua-platform",
     "sec-fetch-dest", "sec-fetch-mode", "sec-fetch-site",
     "x-requested-with", "accept-encoding"}

\* the inbound headers of the request whose value the call carries unchanged
CopiedHeaders(rec, call) ==
    {k \in DOMAIN rec.headers :
        IF k \in DOMAIN call.headers THEN call.headers[k] = rec.headers[k] ELSE FALSE}

(* C11: the client request headers copied onto the GET of the download      *)
(* link all belong to the allow-list of conditional, Range and client-hint *)
(* headers; any other inbound header, such as Cookie or Authorization, is  *)
(* dropped and does not reach the upstream.                                *)
C11_OnlyAllowListForwarded ==
    \A r \in Started :
        \A i \in CallsOf(requests[r], "file") :
            CopiedHeaders(requests[r], requests[r].calls[i]) \subseteq SpecAllowList

\* the file host has answered the GET of the request's download link
FileAnswered(rec) ==
    IF Len(rec.replies) >= 3 THEN rec.replies[3].kind = "http" ELSE FALSE

\* the request has returned the answer of the file host as its own
Streamed(rec) ==
    /\ rec.pc = "done"
    /\ FileAnswered(rec)
    /\ "body" \in DOMAIN rec.response
    /\ rec.response.status = rec.replies[3].status

\* the request has ended in the 500 of an upstream status error
FailedWithStatusError(rec) ==
    /\ rec.pc = "done"
    /\ rec.response.status = 500
    /\ "json" \in DOMAIN rec.response
    /\ "error" \in DOMAIN rec.response.json

(* C12: the answer of the file host is streamed to the client only when its *)
(* status is 200 or 206; for every other status, other 2xx such as 201 or  *)
(* 204 included, the request fails with an upstream status error.          *)
C12_Only200And206Streamed ==
    \A r \in Started :
        FileAnswered(requests[r]) =>
            IF requests[r].replies[3].status \in {200, 206}
            THEN Streamed(requests[r])
            ELSE FailedWithStatusError(requests[r]) /\ ~Streamed(requests[r])

\* the inbound request carries a Range header with a value
HasRange(rec) ==
    IF "range" \in DOMAIN rec.headers THEN rec.headers["range"] # "" ELSE FALSE

-----------------------------------------------------------------------------
(* The body copy, claims C14 and C18 *)

RECURSIVE ByteCount(_)
\* the number of bytes of a body given as its chunks
ByteCount(chunks) ==
    IF chunks = <<>> THEN 0 ELSE Len(Head(chunks)) + ByteCount(Tail(chunks))

\* the request has no Range header and the file host has answered 200
PlainStreamed(rec) ==
    /\ "range" \notin DOMAIN rec.headers
    /\ IF FileAnswered(rec) THEN rec.replies[3].status = 200 ELSE FALSE

\* what the client has received is the start of the upstream body, chunk for
\* chunk, what is still to come is the rest of it, and a body that has ended
\* has been received whole
CopiedInOrder(r) ==
    LET body == requests[r].replies[3].body
        s == streams[r]
    IN  /\ Len(s.delivered) <= Len(body)
        /\ s.delivered = SubSeq(body, 1, Len(s.delivered))
        /\ s.state = "open" => s.pending = SubSeq(body, Len(s.delivered) + 1, Len(body))
        /\ s.state = "closed" =>
              s.delivered = body /\ ByteCount(s.delivered) = ByteCount(body)

(* C14, as claimed: a streamed request without Range whose upstream answers *)
(* 200 with a body of n bytes gets status 200, Content-Length n and the    *)
(* chunks of the upstream body in the same order, nothing added, dropped   *)
(* or altered.                                                             *)
C14_LengthAlwaysSet ==
    \A r \in Started :
        PlainStreamed(requests[r]) =>
            /\ requests[r].pc = "done"
            /\ requests[r].response.status = 200
            /\ "content-length" \in DOMAIN requests[r].response.headers
            /\ requests[r].response.headers["content-length"] =
                   ToString(ByteCount(requests[r].replies[3].body))
            /\ r \in DOMAIN streams
            /\ CopiedInOrder(r)

(* C14, amended: such a request gets status 200 and the chunks of the       *)
(* upstream body in the same order, nothing added, dropped or altered; its *)
(* Content-Length is the one the upstream answer declares, n for a body of *)
(* n bytes, and is absent when the upstream declares none.  The handler    *)
(* returns the response before any chunk has been read, and the body is    *)
(* then passed on one chunk at a time.                                     *)
C14_StreamedUnaltered ==
    /\ [](\A r \in Started :
            PlainStreamed(requests[r]) =>
                LET up == requests[r].replies[3]
                    res == requests[r].response
                IN  /\ requests[r].pc = "done"
                    /\ res.status = 200
                    /\ "content-length" \in DOMAIN res.headers
                          <=> "content-length" \in DOMAIN up.headers
                    /\ "content-length" \in DOMAIN up.headers =>
                          res.headers["content-length"] = up.headers["content-length"]
                    /\ r \in DOMAIN streams
                    /\ CopiedInOrder(r))
    /\ [][\A r \in Started :
            PlainStreamed(requests'[r]) =>
                /\ ~PlainStreamed(requests[r]) =>
                      /\ streams'[r].delivered = <<>>
                      /\ streams'[r].pending = requests'[r].replies[3].body
                /\ PlainStreamed(requests[r]) =>
                      Len(streams'[r].delivered) <= Len(streams[r].delivered) + 1]_vars

\* a request without Range has received the three bytes of a 200 answer that
\* declared Content-Length: 3, in the two chunks the file host sent
C14_Witness ==
    \E r \in Started :
        /\ PlainStreamed(requests[r])
        /\ r \in DOMAIN streams
        /\ streams[r].state = "closed"
        /\ streams[r].delivered = <<<<1, 2>>, <<3>>>>
        /\ requests[r].response.status = 200
        /\ requests[r].response.headers["content-length"] = "3"

-----------------------------------------------------------------------------
(* C15: an OPTIONS request is answered 204 with permissive CORS headers,    *)
(* for any id and any state of the cache, and without any upstream call.   *)
C15_OptionsAnswered204 ==
    \A r \in Started :
        requests[r].method = "OPTIONS" =>
            /\ requests[r].calls = <<>>
            /\ requests[r].pc = "done"
            /\ requests[r].response.status = 204
            /\ "access-control-allow-origin" \in DOMAIN requests[r].response.headers
            /\ requests[r].response.headers["access-control-allow-origin"] = "*"

-----------------------------------------------------------------------------
(* Failures, claims C16 and C19 *)

\* the last upstream call of the request has failed, or its answer was of no
\* use: the abort timer fired, the connection failed, the status was not
\* accepted, the metadata had no first file, or the link was missing
Failed(rec) ==
    \/ ResolutionFailed(rec)
    \/ IF Len(rec.replies) >= 3
       THEN IF rec.replies[3].kind = "http"
            THEN ~(rec.replies[3].status >= 200 /\ rec.replies[3].status <= 299)
            ELSE TRUE
       ELSE FALSE

\* the message the specification gives for the way the request failed, or ""
\* where the message depends on the upstream answer
ExpectedMessage(rec) ==
    LET last == rec.replies[Len(rec.replies)]
    IN  IF last.kind = "abort" THEN "Request timed out"
        ELSE IF last.kind # "http" THEN ""
        ELSE IF ~(last.status >= 200 /\ last.status <= 299) THEN ""
        ELSE IF Len(rec.replies) = 1 THEN "Invalid file metadata"
        ELSE IF last.json = Null THEN ""
        ELSE "No download link received from upstream"

\* every upstream call of the request was answered and accepted
AllSucceeded(rec) ==
    /\ LinkReceived(rec)
    /\ IF Len(rec.replies) >= 3
       THEN IF rec.replies[3].kind = "http" THEN rec.replies[3].status = 200 ELSE FALSE
       ELSE FALSE

-----------------------------------------------------------------------------
\* the JSON body the specification gives for a link and a file
JsonBodyOf(link, file) ==
    [downloadUrl |-> link, fileName |-> file.filename, fileSize |-> file.size]

(* C17: a format=json request for a valid id that resolves returns 200 with *)
(* {downloadUrl, fileName, fileSize}; served from the cache, the three     *)
(* values are the link, the filename and the size of the resolution that   *)
(* wrote the entry, so that the hit and the miss that wrote the entry give *)
(* the same body.                                                          *)
C17_JsonBody ==
    \A r \in Started :
        LET rec == requests[r]
        IN  (HasValidId(rec) /\ WantsJson(rec)) =>
              /\ LinkReceived(rec) =>
                    /\ rec.pc = "done"
                    /\ rec.response.status = 200
                    /\ rec.response.json =
                           JsonBodyOf(ResolvedLink(rec), ResolvedFile(rec))
              /\ FoundFresh(rec) =>
                    /\ rec.pc = "done"
                    /\ rec.response.status = 200
                    /\ \E i \in WritesTo(rec.query.id) :
                          LET writer == requests[writes[i].req]
                          IN  /\ writes[i].entry = rec.cached
                              /\ rec.response.json =
                                     JsonBodyOf(ResolvedLink(writer), ResolvedFile(writer))
                              /\ WantsJson(writer) =>
                                     rec.response.json = writer.response.json

\* a format=json request resolved the id and a second one, served from the
\* entry it wrote, returned the same body
C17_Witness ==
    \E r1 \in Started : \E r2 \in Started :
        /\ r1 # r2
        /\ HasValidId(requests[r1]) /\ HasValidId(requests[r2])
        /\ WantsJson(requests[r1]) /\ WantsJson(requests[r2])
        /\ LinkReceived(requests[r1])
        /\ FoundFresh(requests[r2])
        /\ requests[r2].pc = "done"
        /\ requests[r2].response.json = requests[r1].response.json
        /\ requests[r2].response.json.fileSize = 10

-----------------------------------------------------------------------------
\* the copy of the body of the request was ended by a client disconnect or
\* by a failure of the upstream connection
CopyEnded(r) ==
    IF r \in DOMAIN streams THEN streams[r].state \in {"cancelled", "errored"} ELSE FALSE

(* C18: the cache entry of a request is written before its file GET is      *)
(* issued, and a client disconnect or an abort of the stream during the    *)
(* copy of the body ends the copy without any other effect: no entry is    *)
(* removed or changed, and the entry written before streaming serves later *)
(* requests until its expiry.                                              *)
C18_DisconnectLeavesCache ==
    /\ [](\A r \in Started :
            /\ CallsOf(requests[r], "file") # {} =>
                  \E i \in WritesBy(r) :
                      /\ writes[i].entry.link = requests[r].calls[3].url
                      /\ writes[i].entry.expiry = writes[i].time + 300000
            /\ \A r2 \in Started :
                  (/\ r \in DOMAIN streams
                   /\ r \in requests[r2].after
                   /\ requests[r2].query.id = requests[r].query.id
                   /\ \E i \in WritesBy(r) :
                          requests[r2].startTime < writes[i].time + 300000)
                  => /\ requests[r2].pc = "done"
                     /\ requests[r2].calls = <<>>
                     /\ requests[r2].response.status \in {200, 307})
    /\ [][\A r \in Started :
            /\ (CallsOf(requests'[r], "file") # {} /\ CallsOf(requests[r], "file") = {}) =>
                  /\ requests[r].query.id \in DOMAIN cache'
                  /\ cache'[requests[r].query.id].link = requests'[r].calls[3].url
            /\ (r \in DOMAIN streams /\ r \in DOMAIN streams' /\ streams'[r] # streams[r]) =>
                  /\ cache' = cache
                  /\ writes' = writes
                  /\ requests' = requests
            /\ CopyEnded(r) => streams'[r] = streams[r]
            /\ (~CopyEnded(r) /\ CopyEnded(r)') =>
                  streams'[r].delivered = streams[r].delivered]_vars

\* a client disconnected after the first chunk of a body; the entry the
\* request had written is unchanged, and a request arriving in the last
\* millisecond before its expiry was served from it
C18_Witness ==
    \E r \in DOMAIN streams : \E r2 \in Started :
        /\ streams[r].state = "cancelled"
        /\ Len(streams[r].delivered) = 1
        /\ Len(requests[r].replies[3].body) > 1
        /\ r \in requests[r2].after
        /\ requests[r2].query.id = requests[r].query.id
        /\ requests[r2].startTime = 300000 - 1
        /\ requests[r2].calls = <<>>
        /\ requests[r2].pc = "done"
        /\ cache[requests[r].query.id] = writes[1].entry

-----------------------------------------------------------------------------
\* the calls of fetchWithTimeout that have returned or thrown
Ended == {i \in 1..Len(fetches) : fetches[i].pc = "done"}

TimedOut(f) == f.result = [kind |-> "error", message |-> "Request timed out"]

StatusError(f) ==
    /\ ~(f.status >= 200 /\ f.status <= 299)
    /\ f.status # 0
    /\ f.result = [kind |-> "error",
                   message |-> "HTTP error! status: " \o ToString(f.status)]

Parsed(f) == f.result = [kind |-> "parsed"] /\ f.status >= 200 /\ f.status <= 299

\* the fetch or the parsing of the body failed, and the error was thrown on
OtherFailure(f) ==
    /\ f.result # Null
    /\ f.result.kind = "error"
    /\ f.result.message \in {"fetch failed", "Unexpected token"}

-----------------------------------------------------------------------------
(* The identifier extractor, claim C20 *)

\* the positions of the parameters named surl in the URL that was entered
SurlParams(input) ==
    {i \in 1..Len(input.params) : input.params[i].name = <<"s", "u", "r", "l">>}

\* the URL entered parses and has a parameter surl; its value is that of the
\* first one, as the value of a repeated parameter is
HasSurl(input) == input.parses /\ SurlParams(input) # {}

SurlValue(input) ==
    input.params[CHOOSE i \in SurlParams(input) : \A j \in SurlParams(input) : i <= j].value

(* C20: for every string that parses as a URL and has a query parameter     *)
(* surl with a non-empty value X, the extractor returns exactly X,         *)
(* whatever the path of the URL.                                           *)
C20_SurlReturned ==
    (page # Null /\ page.pc = "extracted" /\ HasSurl(page.input)) =>
        (SurlValue(page.input) # <<>> =>
            page.surlId = [value |-> SurlValue(page.input)])

\* the extractor has returned a/b?c for https://t.co/s/1ab?surl=a/b?c#surl=f,
\* not the path token and not the fragment
C20_Witness ==
    /\ page # Null
    /\ page.pc = "extracted"
    /\ page.input.path = <<"/", "s", "/", "1", "a", "b">>
    /\ page.input.style = "needed"
    /\ page.input.fragment # <<>>
    /\ HasSurl(page.input)
    /\ page.surlId = [value |-> <<"a", "/", "b", "?", "c">>]

-----------------------------------------------------------------------------
(* The identifier extractor without a surl parameter, claims C21 to C23 *)

\* the URL entered parses, has no parameter surl, and its path is /s/<token>
HasSharePath(input) ==
    /\ input.parses
    /\ SurlParams(input) = {}
    /\ Len(input.path) > 3
    /\ SubSeq(input.path, 1, 3) = <<"/", "s", "/">>
    /\ \A i \in 4..Len(input.path) : input.path[i] # "/"

ShareToken(input) == SubSeq(input.path, 4, Len(input.path))

\* the token without the one "1" it may start with
WithoutLeadingOne(token) ==
    IF token[1] = "1" THEN SubSeq(token, 2, Len(token)) ELSE token

(* C21: for a URL without a surl parameter whose path is /s/<token>, the    *)
(* extractor returns the token with a single leading "1" removed when it   *)
(* starts with "1", and the token unchanged when it does not.              *)
C21_LeadingOneStripped ==
    (page # Null /\ page.pc = "extracted" /\ page.variant = "page"
        /\ HasSharePath(page.input)) =>
        page.surlId = [value |-> WithoutLeadingOne(ShareToken(page.input))]


\* the URL entered parses, has no parameter surl, and its path does not
\* start with /s/
HasOtherPath(input) ==
    /\ input.parses
    /\ SurlParams(input) = {}
    /\ (Len(input.path) < 3 \/ SubSeq(input.path, 1, 3) # <<"/", "s", "/">>)

\* the segments of a path that are not empty, in order
Segments(path) == SelectSeq(Split(path, "/"), LAMBDA segment : segment # <<>>)

\* the last non-empty segment of the path, if there is one
LastSegment(path) ==
    IF Segments(path) = <<>> THEN [null |-> TRUE]
    ELSE [value |-> Segments(path)[Len(Segments(path))]]

(* C22: for a parsable URL with no surl parameter and no /s/<token> path,  *)
(* the extractor returns the last non-empty segment of the path, without   *)
(* the query string, also when the path ends with a slash, and returns     *)
(* None only when the path has no non-empty segment.                       *)
C22_LastSegmentReturned ==
    (page # Null /\ page.pc = "extracted" /\ page.variant = "page"
        /\ HasOtherPath(page.input)) =>
        page.surlId = LastSegment(page.input.path)


\* the messages handleSubmit and the extractor of part_002 set themselves
\* when no identifier was extracted
NoIdentifierMessages ==
    {"Invalid Terabox URL format", "Please enter a valid Terabox sharing URL"}

(* C23: for an input string that does not parse as a URL the extractor     *)
(* returns None and raises nothing to its caller (the handler ends with    *)
(* its own message, not with an error of the URL constructor), and the     *)
(* page issues no request: none is awaited and none was sent.              *)
C23_NoRequestForNonUrl ==
    (page # Null /\ ~page.input.parses) =>
        /\ page.surlId = [null |-> TRUE]
        /\ page.issued = <<>>
        /\ page.pc \in {"idle", "extracted", "done"}
        /\ page.videoInfo = [null |-> TRUE]
        /\ page.pc = "done" => (page.error \in NoIdentifierMessages /\ ~page.loading)

C23_Witness ==
    /\ page # Null
    /\ ~page.input.parses
    /\ page.inputUrl # <<>>
    /\ page.pc = "done"
    /\ page.issued = <<>>


\* the get-info answer of the request is a 2xx whose body has a non-empty
\* list with a non-empty fs_id in its first entry
InfoValidated(rec) ==
    IF Answered(rec, 1)
    THEN LET m == rec.replies[1].json
         IN  IF m = [null |-> TRUE] THEN FALSE
             ELSE IF "list" \in DOMAIN m
                  THEN IF Len(m.list) > 0 THEN m.list[1].fs_id # "" ELSE FALSE
                  ELSE FALSE
    ELSE FALSE

(* C24: the get-download POST is issued only after the get-info GET of the  *)
(* same request was answered 2xx with a non-empty list whose first entry   *)
(* has a non-empty fs_id, and its body carries fs_id, shareid, sign,       *)
(* timestamp and uk of that answer; when the answer is 2xx and fails the   *)
(* validation the request ends with the error 'Invalid file metadata' and  *)
(* no POST is sent.                                                        *)
C24_PostAfterValidInfo ==
    \A r \in Started :
        LET rec == requests[r]
        IN  /\ \A k \in CallsOf(rec, "get-download") :
                  /\ k = 2
                  /\ rec.calls[1].kind = "get-info"
                  /\ InfoValidated(rec)
                  /\ rec.calls[k].body =
                         [fs_id |-> rec.replies[1].json.list[1].fs_id,
                          shareid |-> rec.replies[1].json.shareid,
                          sign |-> rec.replies[1].json.sign,
                          timestamp |-> rec.replies[1].json.timestamp,
                          uk |-> rec.replies[1].json.uk]
            /\ (Answered(rec, 1) /\ ~InfoValidated(rec)) =>
                  /\ rec.pc = "done"
                  /\ rec.response.status = 500
                  /\ rec.response.json.error = "Invalid file metadata"
                  /\ CallsOf(rec, "get-download") = {}


(* C25: in every reachable state, whatever the interleaving of the         *)
(* requests in flight, every key of the cache matches ^[A-Za-z0-9_-]{6,}$  *)
(* and every entry is the product of one resolution: one request for that  *)
(* key whose get-download answer gave the entry's non-empty link, whose    *)
(* get-info answer gave the entry's metadata with a non-empty fs_id, and   *)
(* whose write set the expiry 300000 ms after its own time.                *)
C25_EntriesFromOneResolution ==
    \A id \in DOMAIN cache :
        /\ Len(id) >= 6
        /\ \A i \in 1..Len(id) : id[i] \in Lower \cup Upper \cup Digit \cup {"_", "-"}
        /\ cache[id].link # ""
        /\ cache[id].metadata.fs_id # ""
        /\ \E i \in 1..Len(writes) :
              LET rec == requests[writes[i].req]
              IN  /\ writes[i].id = id
                  /\ rec.query.id = id
                  /\ Len(rec.replies) >= 2
                  /\ cache[id].link = rec.replies[2].json.downloadLink
                  /\ cache[id].metadata = rec.replies[1].json.list[1]
                  /\ cache[id].expiry = writes[i].time + 300000

\* two requests for one id were in flight together, got different files and
\* different links at different times, and both have written the entry
C25_Witness ==
    /\ Len(writes) = 2
    /\ writes[1].id = writes[2].id
    /\ writes[1].req # writes[2].req
    /\ writes[1].time # writes[2].time
    /\ requests[writes[1].req].cached = [null |-> TRUE]
    /\ requests[writes[2].req].cached = [null |-> TRUE]
    /\ writes[1].entry.link # writes[2].entry.link
    /\ writes[1].entry.metadata # writes[2].entry.metadata
    /\ cache[writes[2].id] = writes[2].entry


\* the kinds of the upstream calls of a request, in the order they were issued
CallKinds(rec) == [i \in 1..Len(rec.calls) |-> rec.calls[i].kind]

(* C26: a request with format=json never issues the GET of the download    *)
(* link.  When it finds a fresh entry it issues no upstream call at all;   *)
(* on a miss it issues the get-info GET, then the get-download POST, and   *)
(* nothing else: it has returned once the POST is settled, and when it     *)
(* answers 200 it has made exactly these two calls.                        *)
C26_JsonNeverFetchesFile ==
    \A r \in Started :
        LET rec == requests[r]
            json == IF "format" \in DOMAIN rec.query THEN rec.query.format = "json"
                    ELSE FALSE
            hit == IF rec.cached = [null |-> TRUE] THEN FALSE
                   ELSE rec.startTime < rec.cached.expiry
        IN  json =>
              /\ \A i \in 1..Len(rec.calls) : rec.calls[i].kind # "file"
              /\ hit => (rec.calls = <<>> /\ rec.pc = "done")
              /\ (HasValidId(rec) /\ ~hit) =>
                    /\ CallKinds(rec) \in {<<"get-info">>, <<"get-info", "get-download">>}
                    /\ Len(rec.replies) = 2 => rec.pc = "done"
                    /\ (rec.pc = "done" /\ rec.response.status = 200) =>
                          CallKinds(rec) = <<"get-info", "get-download">>

\* a format=json request missed, made its two calls and answered 200, and a
\* later format=json request for the same id was answered from the cache
C26_Witness ==
    \E r1 \in Started : \E r2 \in Started :
        /\ r1 \in requests[r2].after
        /\ WantsJson(requests[r1]) /\ WantsJson(requests[r2])
        /\ HasValidId(requests[r1]) /\ HasValidId(requests[r2])
        /\ requests[r1].query.id = requests[r2].query.id
        /\ Len(requests[r1].calls) = 2
        /\ requests[r1].response.status = 200
        /\ requests[r2].cached # [null |-> TRUE]
        /\ requests[r2].calls = <<>>
        /\ requests[r2].response.status = 200


\* the timers of the fallback that are set and have not run yet
FallbackTimers(p) == {i \in 1..Len(p.timers) : p.timers[i].kind = "fallback"}

\* no download is going on and none is announced: downloadStarted is false,
\* the progress is null, and nothing is left that could change them
DownloadsAtRest ==
    /\ ~page.downloadStarted
    /\ page.downloadProgress = [null |-> TRUE]
    /\ page.timers = <<>>
    /\ page.pending = <<>>

====
